---- MODULE Spec2Model ----
(***************************************************************************)
(* Module dependency graph engine of code-analyzer/scripts/                *)
(* dependency_analyzer.py: DependencyGraphBuilder (graph construction and  *)
(* coupling metrics) and CycleDetector (depth-first cycle detection).      *)
(*                                                                         *)
(* Strings are sequences of one-character strings, so that split,          *)
(* startswith and the lexicographic comparison are computed as Python      *)
(* computes them.  Floats are modelled as exact fractions [num, den].      *)
(***************************************************************************)
EXTENDS Integers, Sequences, FiniteSets, TLC

(***************************************************************************)
(* Bounds of the model.                                                    *)
(***************************************************************************)
\* number of inputs (files collected, records added, class lists supplied)
\* one build consumes
MaxInputs == 3

\* number of cycles in a list handed to _unique_cycles on its own
MaxCycles == 2

\* number of pieces a module name handed to _normalize_module_name is made of
MaxParts == 5

\* number of records of a build whose graph is analysed
MaxRecords == 6

\* number of records of a build whose graph several calls read side by side
MaxShared == 2

\* number of nodes of a registry whose core modules are identified
MaxNodes == 6

\* number of records added to one builder, in every order
MaxBatch == 3

\* number of form fields of a fields.json drawn from the pool of fields
MaxFields == 2

\* number of copies of one overlapping field in a crowded fields.json
MaxCrowd == 4

(***************************************************************************)
(* Characters and strings.                                                 *)
(***************************************************************************)
LowerCase ==
  <<"a","b","c","d","e","f","g","h","i","j","k","l","m",
    "n","o","p","q","r","s","t","u","v","w","x","y","z">>

UpperCase ==
  <<"A","B","C","D","E","F","G","H","I","J","K","L","M",
    "N","O","P","Q","R","S","T","U","V","W","X","Y","Z">>

IsUpper(c) == \E i \in 1..Len(UpperCase) : UpperCase[i] = c

IsLower(c) == \E i \in 1..Len(LowerCase) : LowerCase[i] = c

\* the code point of a character: the order Python compares strings by
Ord(c) ==
  IF IsUpper(c) THEN 64 + (CHOOSE i \in 1..Len(UpperCase) : UpperCase[i] = c)
  ELSE IF IsLower(c) THEN 96 + (CHOOSE i \in 1..Len(LowerCase) : LowerCase[i] = c)
  ELSE IF c = "." THEN 46
  ELSE IF c = "/" THEN 47
  ELSE 95  \* "_"

\* str.lower()
lower(s) ==
  [i \in 1..Len(s) |->
     IF IsUpper(s[i])
     THEN LowerCase[CHOOSE k \in 1..Len(UpperCase) : UpperCase[k] = s[i]]
     ELSE s[i]]

\* sub in s
Contains(sub, s) ==
  \E i \in 1..(Len(s) - Len(sub) + 1) : SubSeq(s, i, i + Len(sub) - 1) = sub

\* s.startswith(prefix)
startswith(s, prefix) ==
  Len(s) >= Len(prefix) /\ SubSeq(s, 1, Len(prefix)) = prefix

\* position of the first occurrence of character c in s, 0 when there is none
Find(s, c) ==
  IF \E i \in 1..Len(s) : s[i] = c
  THEN CHOOSE i \in 1..Len(s) : s[i] = c /\ \A j \in 1..(i - 1) : s[j] # c
  ELSE 0

\* s.split(c): the list of the pieces of s between the occurrences of c
RECURSIVE split(_, _)
split(s, c) ==
  IF Find(s, c) = 0 THEN <<s>>
  ELSE <<SubSeq(s, 1, Find(s, c) - 1)>>
         \o split(SubSeq(s, Find(s, c) + 1, Len(s)), c)

\* Python's s < t on strings
RECURSIVE StrLess(_, _)
StrLess(s, t) ==
  IF t = <<>> THEN FALSE
  ELSE IF s = <<>> THEN TRUE
  ELSE IF Ord(Head(s)) # Ord(Head(t)) THEN Ord(Head(s)) < Ord(Head(t))
  ELSE StrLess(Tail(s), Tail(t))

ROOT == <<"r","o","o","t">>

INIT_PY == <<"_","_","i","n","i","t","_","_",".","p","y">>

(***************************************************************************)
(* Fractions standing for the float metrics.                               *)
(***************************************************************************)
Frac(n, d) == [num |-> n, den |-> d]

Zero == Frac(0, 1)

One == Frac(1, 1)

FracEq(p, q) == p.num * q.den = q.num * p.den

FracLeq(p, q) == p.num * q.den <= q.num * p.den

FracLess(p, q) == p.num * q.den < q.num * p.den

Abs(i) == IF i < 0 THEN -i ELSE i

(***************************************************************************)
(* The data classes.                                                       *)
(***************************************************************************)
\* the dependency types a record carries (two of the ten members of the enum)
DependencyType == {"import", "inherit"}

Dependency(source, target, type) ==
  [source_module |-> source, target_module |-> target, dependency_type |-> type]

\* DependencyGraph(): no node, no edge, no metadata
DependencyGraph ==
  [nodes |-> <<>>, edges |-> <<>>, metadata |-> [k \in {} |-> 0]]

ModuleDependencyInfo(name) ==
  [module_name |-> name,
   afferent_coupling |-> 0,
   efferent_coupling |-> 0,
   instability |-> Zero,
   abstraction |-> Zero,
   distance |-> Zero,
   dependencies |-> <<>>,
   dependents |-> <<>>,
   core_classes |-> <<>>,
   public_interfaces |-> <<>>]

(***************************************************************************)
(* self.modules is a dict: a sequence of nodes in insertion order, looked  *)
(* up by module_name.                                                      *)
(***************************************************************************)
Keys(mods) == [i \in 1..Len(mods) |-> mods[i].module_name]

KeySet(mods) == {mods[i].module_name : i \in 1..Len(mods)}

IndexOf(mods, name) == CHOOSE i \in 1..Len(mods) : mods[i].module_name = name

Get(mods, name) == mods[IndexOf(mods, name)]

\* the assignment made without the membership test: the node is created anew
EnsureModule_reset(mods, name) ==
  IF name \in KeySet(mods)
  THEN [mods EXCEPT ![IndexOf(mods, name)] = ModuleDependencyInfo(name)]
  ELSE Append(mods, ModuleDependencyInfo(name))

\* self.modules[name] = ModuleDependencyInfo(name) if name is not a key
EnsureModule(mods, name) ==
  IF name \in KeySet(mods) THEN mods ELSE Append(mods, ModuleDependencyInfo(name))

(***************************************************************************)
(* DependencyGraphBuilder: names.                                          *)
(***************************************************************************)
\* os.sep
SEP == "/"

\* _get_module_name(rel_path)
_get_module_name(rel_path) ==
  IF rel_path = <<>> THEN ROOT
  ELSE LET parts == split(rel_path, SEP)
       IN IF parts[Len(parts)] = INIT_PY
          THEN (IF Len(parts) > 1 THEN parts[Len(parts) - 1] ELSE ROOT)
          ELSE parts[1]

\* prefixes = ['src.', 'lib.', 'core.', 'app.']
prefixes ==
  << <<"s","r","c",".">>, <<"l","i","b",".">>,
     <<"c","o","r","e",".">>, <<"a","p","p",".">> >>

\* for prefix in prefixes[k..]: if name.startswith(prefix): name = name[len(prefix):]
RECURSIVE StripPrefixes(_, _)
StripPrefixes(name, k) ==
  IF k > Len(prefixes) THEN name
  ELSE IF startswith(name, prefixes[k])
       THEN StripPrefixes(SubSeq(name, Len(prefixes[k]) + 1, Len(name)), k + 1)
       ELSE StripPrefixes(name, k + 1)

\* the normalisation with the prefixes removed before the cut at the first '.'
_normalize_module_name_prefix_first(module_name) ==
  IF module_name = <<>> THEN ROOT
  ELSE LET stripped == StripPrefixes(module_name, 1)
           truncated == IF Find(stripped, ".") # 0
                        THEN split(stripped, ".")[1]
                        ELSE stripped
       IN IF Find(truncated, "/") # 0 THEN split(truncated, "/")[1] ELSE truncated

\* _normalize_module_name(module_name)
_normalize_module_name(module_name) ==
  IF module_name = <<>> THEN ROOT
  ELSE LET truncated == IF Find(module_name, ".") # 0
                        THEN split(module_name, ".")[1]
                        ELSE module_name
           stripped == StripPrefixes(truncated, 1)
       IN IF Find(stripped, "/") # 0 THEN split(stripped, "/")[1] ELSE stripped

(***************************************************************************)
(* DependencyGraphBuilder._add_dependency.                                 *)
(***************************************************************************)
\* existing with the comparison on the wrong field of the stored record
existing_by_source(mods, source, target, type) ==
  LET Test(d) == d.source_module = target /\ d.dependency_type = type
  IN SelectSeq(Get(mods, source).dependencies, Test)

\* existing = [d for d in self.modules[source].dependencies
\*             if d.target_module == target and d.dependency_type == type]
existing(mods, source, target, type) ==
  LET Test(d) == d.target_module = target /\ d.dependency_type = type
  IN SelectSeq(Get(mods, source).dependencies, Test)

\* existing_rev with the comparison on the wrong field of the mirrored record
existing_rev_by_source(mods, source, target) ==
  LET Test(d) == d.source_module = source
  IN SelectSeq(Get(mods, target).dependents, Test)

\* existing_rev = [d for d in self.modules[target].dependents
\*                 if d.target_module == source]
existing_rev(mods, source, target) ==
  LET Test(d) == d.target_module = source
  IN SelectSeq(Get(mods, target).dependents, Test)

\* self.modules[name].dependencies.append(dep)
AppendDependency(mods, name, dep) ==
  [mods EXCEPT ![IndexOf(mods, name)].dependencies = Append(@, dep)]

\* self.modules[name].dependents.append(dep)
AppendDependent(mods, name, dep) ==
  [mods EXCEPT ![IndexOf(mods, name)].dependents = Append(@, dep)]

\* the endpoints of a record after normalisation
SourceOf(dependency) == _normalize_module_name(dependency.source_module)

TargetOf(dependency) == _normalize_module_name(dependency.target_module)

\* the self-reference test applied to the names before normalisation
IsSelfReference_raw(dependency) ==
  dependency.source_module = dependency.target_module

\* the test of the early return: the record is a self-reference
IsSelfReference(dependency) == SourceOf(dependency) = TargetOf(dependency)

\* the record stored without the assignment of the normalised names
ForwardRecord_raw(dependency, source, target) ==
  Dependency(dependency.source_module, dependency.target_module,
             dependency.dependency_type)

\* the record stored in the source's dependencies: dependency itself, after
\* dependency.source_module = source; dependency.target_module = target
ForwardRecord(dependency, source, target) ==
  Dependency(source, target, dependency.dependency_type)

\* the reverse record built with the endpoints of the forward one
ReverseRecord_unturned(dependency, source, target) ==
  Dependency(source, target, dependency.dependency_type)

\* reverse_dep = Dependency(source_module=target, target_module=source, ...)
ReverseRecord(dependency, source, target) ==
  Dependency(target, source, dependency.dependency_type)

\* one test for both lists: a record between two modules already linked is
\* skipped, whatever its kind
_add_dependency_one_test(mods, dependency) ==
  LET source == SourceOf(dependency)
      target == TargetOf(dependency)
  IN IF IsSelfReference(dependency) THEN mods
     ELSE LET created == EnsureModule(EnsureModule(mods, source), target)
          IN IF existing_rev(created, source, target) = <<>>
             THEN AppendDependent(
                    AppendDependency(created, source,
                                     ForwardRecord(dependency, source, target)),
                    target, ReverseRecord(dependency, source, target))
             ELSE created

\* _add_dependency(dependency), as a function of self.modules
_add_dependency(mods, dependency) ==
  LET source == SourceOf(dependency)
      target == TargetOf(dependency)
      type == dependency.dependency_type
  IN IF IsSelfReference(dependency) THEN mods
     ELSE LET created == EnsureModule(EnsureModule(mods, source), target)
              forward == IF existing(created, source, target, type) = <<>>
                         THEN AppendDependency(created, source,
                                               ForwardRecord(dependency, source, target))
                         ELSE created
          IN IF existing_rev(forward, source, target) = <<>>
             THEN AppendDependent(forward, target,
                                  ReverseRecord(dependency, source, target))
             ELSE forward

(***************************************************************************)
(* DependencyGraphBuilder._calculate_metrics.                              *)
(***************************************************************************)
\* module.efferent_coupling = len(module.dependencies)
EfferentOf(module) == Len(module.dependencies)

\* the afferent coupling read from the outgoing list
AfferentOf_outgoing(module) == Len(module.dependencies)

\* module.afferent_coupling = len(module.dependents)
AfferentOf(module) == Len(module.dependents)

\* the instability with 1.0 as the value of a module without edges
InstabilityOf_unstable(afferent, efferent) ==
  IF afferent + efferent > 0 THEN Frac(efferent, afferent + efferent) ELSE One

\* I = Ce / (Ca + Ce), 0.0 when Ca + Ce == 0
InstabilityOf(afferent, efferent) ==
  IF afferent + efferent > 0 THEN Frac(efferent, afferent + efferent) ELSE Zero

\* the first loop of _calculate_metrics
CouplingPass(mods) ==
  [i \in 1..Len(mods) |->
     [mods[i] EXCEPT
        !.efferent_coupling = EfferentOf(mods[i]),
        !.afferent_coupling = AfferentOf(mods[i]),
        !.instability = InstabilityOf(AfferentOf(mods[i]), EfferentOf(mods[i]))]]

\* 'interface' in cls.lower() or 'abstract' in cls.lower()
IsAbstractName(cls) ==
  \/ Contains(<<"i","n","t","e","r","f","a","c","e">>, lower(cls))
  \/ Contains(<<"a","b","s","t","r","a","c","t">>, lower(cls))

\* the abstraction of one module: abstract_count / total_count, 0.0 when
\* total_count == 0
AbstractionOf(module) ==
  LET abstract_count == Len(SelectSeq(module.core_classes, IsAbstractName))
      total_count == Len(module.core_classes) + Len(module.public_interfaces)
  IN IF total_count > 0 THEN Frac(abstract_count, total_count) ELSE Zero

\* _calculate_abstraction()
_calculate_abstraction(mods) ==
  [i \in 1..Len(mods) |-> [mods[i] EXCEPT !.abstraction = AbstractionOf(mods[i])]]

\* the distance without abs()
DistanceOf_signed(abstraction, instability) ==
  Frac(abstraction.num * instability.den + instability.num * abstraction.den
       - abstraction.den * instability.den,
       abstraction.den * instability.den)

\* abs(module.abstraction + module.instability - 1)
DistanceOf(abstraction, instability) ==
  Frac(Abs(abstraction.num * instability.den + instability.num * abstraction.den
           - abstraction.den * instability.den),
       abstraction.den * instability.den)

\* _calculate_distance()
_calculate_distance(mods) ==
  [i \in 1..Len(mods) |->
     [mods[i] EXCEPT !.distance = DistanceOf(mods[i].abstraction, mods[i].instability)]]

\* _calculate_metrics()
_calculate_metrics(mods) ==
  _calculate_distance(_calculate_abstraction(CouplingPass(mods)))

\* the records from position i on added to the registry mods, in their order
RECURSIVE AddFrom(_, _, _)
AddFrom(mods, records, i) ==
  IF i > Len(records) THEN mods
  ELSE AddFrom(_add_dependency(mods, records[i]), records, i + 1)

\* a new builder after the records were added and the metrics calculated
AddAll(records) == _calculate_metrics(AddFrom(<<>>, records, 1))

(***************************************************************************)
(* DependencyGraphBuilder._build_graph_structure: graph.nodes holds the    *)
(* very objects of self.modules, so the graph keeps their keys, in order,  *)
(* and the nodes are read through self.modules.                            *)
(***************************************************************************)
\* for module in self.modules.values(): for dep in module.dependencies:
\*     self.graph.edges.append(dep)
RECURSIVE CollectEdges(_, _)
CollectEdges(mods, i) ==
  IF i > Len(mods) THEN <<>>
  ELSE mods[i].dependencies \o CollectEdges(mods, i + 1)

\* {}: the dict without keys
EmptyDict == [k \in {} |-> 0]

\* None: no name, a sequence that is no sequence of characters
None == <<"None">>

\* round(x, ndigits) of a non-negative x, ties to the even neighbour
Round(x, ndigits) ==
  LET scale == 10 ^ ndigits
      q == (x.num * scale) \div x.den
      r == (x.num * scale) % x.den
  IN Frac(IF 2 * r > x.den \/ (2 * r = x.den /\ q % 2 = 1) THEN q + 1 ELSE q,
          scale)

\* sum(m.afferent_coupling + m.efferent_coupling for m in nodes[i..])
RECURSIVE TotalCoupling(_, _)
TotalCoupling(mods, i) ==
  IF i > Len(mods) THEN 0
  ELSE mods[i].afferent_coupling + mods[i].efferent_coupling
         + TotalCoupling(mods, i + 1)

\* _calculate_average_coupling()
_calculate_average_coupling(mods) ==
  IF Len(mods) = 0 THEN Zero
  ELSE Round(Frac(TotalCoupling(mods, 1), Len(mods)), 2)

\* the loop with >= in place of >: the last module of maximal coupling
RECURSIVE MaxCouplingFrom_last(_, _, _, _)
MaxCouplingFrom_last(mods, i, max_coupling, max_module) ==
  IF i > Len(mods) THEN max_module
  ELSE LET coupling == mods[i].afferent_coupling + mods[i].efferent_coupling
       IN IF coupling >= max_coupling
          THEN MaxCouplingFrom_last(mods, i + 1, coupling, mods[i].module_name)
          ELSE MaxCouplingFrom_last(mods, i + 1, max_coupling, max_module)

\* the loop of _find_max_coupling_module from position i
RECURSIVE MaxCouplingFrom(_, _, _, _)
MaxCouplingFrom(mods, i, max_coupling, max_module) ==
  IF i > Len(mods) THEN max_module
  ELSE LET coupling == mods[i].afferent_coupling + mods[i].efferent_coupling
       IN IF coupling > max_coupling
          THEN MaxCouplingFrom(mods, i + 1, coupling, mods[i].module_name)
          ELSE MaxCouplingFrom(mods, i + 1, max_coupling, max_module)

\* _find_max_coupling_module()
_find_max_coupling_module(mods) == MaxCouplingFrom(mods, 1, -1, None)

\* list.sort(key=..., reverse=True): seq in non-increasing order of the keys
\* (keys[i] is the key of seq[i]); equal keys keep their order
SortDescending(seq, keys) ==
  LET Before(j, i) == keys[j] > keys[i] \/ (keys[j] = keys[i] /\ j < i)
      Rank(i) == Cardinality({j \in 1..Len(seq) : Before(j, i)}) + 1
  IN [p \in 1..Len(seq) |-> seq[CHOOSE i \in 1..Len(seq) : Rank(i) = p]]

\* module_scores[:count]
Take(seq, count) == SubSeq(seq, 1, IF Len(seq) < count THEN Len(seq) ELSE count)

\* _identify_core_modules(count)
_identify_core_modules(mods, count) ==
  LET module_scores ==
        [i \in 1..Len(mods) |->
           [name |-> mods[i].module_name,
            score |-> mods[i].afferent_coupling + mods[i].efferent_coupling,
            afferent |-> mods[i].afferent_coupling,
            efferent |-> mods[i].efferent_coupling,
            instability |-> mods[i].instability]]
  IN Take(SortDescending(module_scores,
                         [i \in 1..Len(mods) |-> module_scores[i].score]),
          count)

\* the count build_graph passes to _identify_core_modules
CoreModuleCount == 5

_build_graph_structure(g, mods) ==
  LET nodes == g.nodes \o SelectSeq(Keys(mods), LAMBDA n : \A j \in 1..Len(g.nodes) : g.nodes[j] # n)
      edges == g.edges \o CollectEdges(mods, 1)
  IN [nodes |-> nodes,
      edges |-> edges,
      metadata |-> [total_nodes |-> Len(nodes),
                    total_edges |-> Len(edges),
                    average_coupling |-> _calculate_average_coupling(mods),
                    max_coupling |-> _find_max_coupling_module(mods),
                    core_modules |-> _identify_core_modules(mods, CoreModuleCount)]]

\* self.graph.nodes.get(node).dependencies, no neighbour when node is no key
NeighboursOf(g, mods, node) ==
  IF \E j \in 1..Len(g.nodes) : g.nodes[j] = node
  THEN Get(mods, node).dependencies
  ELSE <<>>

(***************************************************************************)
(* CycleDetector.                                                          *)
(***************************************************************************)
\* set(cycle)
SetOf(seq) == {seq[i] : i \in 1..Len(seq)}

\* the loop with the comparison turned round: the position of the largest name
RECURSIVE MinIdx_largest(_, _, _)
MinIdx_largest(cycle, i, min_idx) ==
  IF i > Len(cycle) - 1 THEN min_idx
  ELSE IF StrLess(cycle[min_idx], cycle[i]) THEN MinIdx_largest(cycle, i + 1, i)
       ELSE MinIdx_largest(cycle, i + 1, min_idx)

\* the loop of _normalize_cycle: the position of the smallest name among
\* cycle[0..len-2], the first one on ties (here positions count from 1)
RECURSIVE MinIdx(_, _, _)
MinIdx(cycle, i, min_idx) ==
  IF i > Len(cycle) - 1 THEN min_idx
  ELSE IF StrLess(cycle[i], cycle[min_idx]) THEN MinIdx(cycle, i + 1, i)
       ELSE MinIdx(cycle, i + 1, min_idx)

\* _normalize_cycle(cycle)
_normalize_cycle(cycle) ==
  IF Len(cycle) <= 2 THEN cycle
  ELSE LET min_idx == MinIdx(cycle, 2, 1)
       IN SubSeq(cycle, min_idx, Len(cycle) - 1)
            \o SubSeq(cycle, 1, min_idx - 1)
            \o <<cycle[min_idx]>>

\* the loop with the duplicate test on the lists instead of on their sets
RECURSIVE UniqueFrom_list(_, _, _)
UniqueFrom_list(cycles, i, unique) ==
  IF i > Len(cycles) THEN unique
  ELSE LET normalized == _normalize_cycle(cycles[i])
           is_duplicate == \E j \in 1..Len(unique) : normalized = unique[j]
       IN UniqueFrom_list(cycles, i + 1,
                          IF is_duplicate THEN unique
                          ELSE Append(unique, normalized))

\* _unique_cycles(cycles), the loop from position i with the list unique so far
RECURSIVE UniqueFrom(_, _, _)
UniqueFrom(cycles, i, unique) ==
  IF i > Len(cycles) THEN unique
  ELSE LET normalized == _normalize_cycle(cycles[i])
           is_duplicate == \E j \in 1..Len(unique) :
                              SetOf(normalized) = SetOf(unique[j])
       IN UniqueFrom(cycles, i + 1,
                     IF is_duplicate THEN unique ELSE Append(unique, normalized))

_unique_cycles(cycles) == UniqueFrom(cycles, 1, <<>>)

\* the severity with the closing duplicate counted in the length
_assess_severity_closed(cycle) ==
  LET length == Len(cycle)
  IN IF length = 2 THEN "critical"
     ELSE IF length <= 3 THEN "high"
     ELSE IF length <= 5 THEN "medium"
     ELSE "low"

\* _assess_severity(cycle); the four labels of the source are rendered as
\* critical, high, medium, low
_assess_severity(cycle) ==
  LET length == Len(cycle) - 1
  IN IF length = 2 THEN "critical"
     ELSE IF length <= 3 THEN "high"
     ELSE IF length <= 5 THEN "medium"
     ELSE "low"

\* the state of one detect_cycles call: its locals, the frames of the
\* recursive dfs calls (node, position of the next dependency to look at) and
\* the position k of the outer loop over graph.nodes
DfsInit ==
  [cycles |-> <<>>, visited |-> {}, rec_stack |-> {}, path |-> <<>>,
   frames |-> <<>>, k |-> 1]

\* entry of dfs(node) without visited.add(node)
DfsEnter_unmarked(d, node) ==
  [d EXCEPT !.rec_stack = @ \cup {node},
            !.path = Append(@, node),
            !.frames = Append(@, [node |-> node, i |-> 1])]

\* entry of dfs(node): visited.add, rec_stack.add, path.append
DfsEnter(d, node) ==
  [d EXCEPT !.visited = @ \cup {node},
            !.rec_stack = @ \cup {node},
            !.path = Append(@, node),
            !.frames = Append(@, [node |-> node, i |-> 1])]

\* path.index(neighbor)
PathIndex(path, neighbor) ==
  CHOOSE i \in 1..Len(path) :
    path[i] = neighbor /\ \A j \in 1..(i - 1) : path[j] # neighbor

\* cycle = path[cycle_start:] + [neighbor]
CycleFrom(path, neighbor) ==
  SubSeq(path, PathIndex(path, neighbor), Len(path)) \o <<neighbor>>

\* a cycle was found and only the current dfs call ends, with its clean-up;
\* the calling dfs frames go on with their next dependency
DfsFound_resume(d, neighbor) ==
  [d EXCEPT !.cycles = Append(@, CycleFrom(d.path, neighbor)),
            !.path = SubSeq(@, 1, Len(@) - 1),
            !.rec_stack = @ \ {d.frames[Len(d.frames)].node},
            !.frames = SubSeq(@, 1, Len(@) - 1)]

\* a cycle was found: cycles.append(cycle); return True, which every calling
\* dfs frame passes on at once (if dfs(neighbor): return True), so that the
\* whole recursion ends without path.pop() and rec_stack.remove(node)
DfsFound(d, neighbor) ==
  [d EXCEPT !.cycles = Append(@, CycleFrom(d.path, neighbor)),
            !.frames = <<>>]

\* the end of dfs(node) without its clean-up
DfsReturn_keep(d) ==
  [d EXCEPT !.frames = SubSeq(@, 1, Len(@) - 1)]

\* the end of dfs(node): path.pop(); rec_stack.remove(node); return False
DfsReturn(d) ==
  LET top == d.frames[Len(d.frames)]
  IN [d EXCEPT !.path = SubSeq(@, 1, Len(@) - 1),
               !.rec_stack = @ \ {top.node},
               !.frames = SubSeq(@, 1, Len(@) - 1)]

\* elif neighbor in rec_stack
OnStack(d, neighbor) == neighbor \in d.rec_stack

\* one step of the innermost dfs call: the next dependency of its node
DfsStep(g, mods, d) ==
  LET top == d.frames[Len(d.frames)]
      deps == NeighboursOf(g, mods, top.node)
      next == [d EXCEPT !.frames[Len(d.frames)].i = @ + 1]
  IN IF top.i > Len(deps) THEN DfsReturn(d)
     ELSE LET neighbor == deps[top.i].target_module
          IN IF neighbor \notin d.visited THEN DfsEnter(next, neighbor)
             ELSE IF OnStack(d, neighbor) THEN DfsFound(d, neighbor)
             ELSE next

\* the loop calling dfs for the first node of graph.nodes only
OuterStep_first(g, d) ==
  IF d.k = 1 /\ g.nodes[d.k] \notin d.visited
  THEN DfsEnter([d EXCEPT !.k = @ + 1], g.nodes[d.k])
  ELSE [d EXCEPT !.k = @ + 1]

\* one step of the loop 'for node in self.graph.nodes: if node not in visited'
OuterStep(g, d) ==
  IF g.nodes[d.k] \notin d.visited
  THEN DfsEnter([d EXCEPT !.k = @ + 1], g.nodes[d.k])
  ELSE [d EXCEPT !.k = @ + 1]

\* detect_cycles has run both loops to their end
DfsFinished(g, d) == d.frames = <<>> /\ d.k > Len(g.nodes)

\* one step of detect_cycles
DetectStep(g, mods, d) ==
  IF d.frames # <<>> THEN DfsStep(g, mods, d) ELSE OuterStep(g, d)

\* detect_cycles() run to its end from the state d
RECURSIVE DetectFrom(_, _, _)
DetectFrom(g, mods, d) ==
  IF DfsFinished(g, d) THEN _unique_cycles(d.cycles)
  ELSE DetectFrom(g, mods, DetectStep(g, mods, d))

\* detect_cycles()
detect_cycles(g, mods) == DetectFrom(g, mods, DfsInit)

(***************************************************************************)
(* CouplingAnalyzer.  The methods read list(self.graph.nodes.values()),    *)
(* here the sequence nodes of node records in the order of the keys.       *)
(***************************************************************************)
\* list(self.graph.nodes.values())
GraphNodes(g, mods) == [i \in 1..Len(g.nodes) |-> Get(mods, g.nodes[i])]

\* float addition
FracAdd(p, q) == Frac(p.num * q.den + q.num * p.den, p.den * q.den)

\* sum(m.instability for m in modules[i..])
RECURSIVE SumInstability(_, _)
SumInstability(nodes, i) ==
  IF i > Len(nodes) THEN Zero
  ELSE FracAdd(nodes[i].instability, SumInstability(nodes, i + 1))

\* sum(m.abstraction for m in modules[i..])
RECURSIVE SumAbstraction(_, _)
SumAbstraction(nodes, i) ==
  IF i > Len(nodes) THEN Zero
  ELSE FracAdd(nodes[i].abstraction, SumAbstraction(nodes, i + 1))

\* x / len(modules)
FracDivInt(x, n) == Frac(x.num, x.den * n)

\* the bounds 0.3 and 0.7 of the instability distribution, and 0.7 of the
\* unstable modules
StableBelow == Frac(3, 10)

UnstableAbove == Frac(7, 10)

\* sum(1 for m in modules if m.instability < 0.3)
CountStable(nodes) ==
  Cardinality({i \in 1..Len(nodes) : FracLess(nodes[i].instability, StableBelow)})

\* sum(1 for m in modules if 0.3 <= m.instability <= 0.7)
CountModerate(nodes) ==
  Cardinality({i \in 1..Len(nodes) :
                 /\ FracLeq(StableBelow, nodes[i].instability)
                 /\ FracLeq(nodes[i].instability, UnstableAbove)})

\* sum(1 for m in modules if m.instability > 0.7)
CountUnstable(nodes) ==
  Cardinality({i \in 1..Len(nodes) : FracLess(UnstableAbove, nodes[i].instability)})

\* the summary of the nodes, whatever their number
SummaryOf(nodes, edges) ==
  [total_modules |-> Len(nodes),
   total_dependencies |-> Len(edges),
   average_instability |->
     Round(FracDivInt(SumInstability(nodes, 1), Len(nodes)), 3),
   average_abstraction |->
     Round(FracDivInt(SumAbstraction(nodes, 1), Len(nodes)), 3),
   instability_distribution |->
     [stable |-> CountStable(nodes),
      moderate |-> CountModerate(nodes),
      unstable |-> CountUnstable(nodes)]]

\* the summary that answers a graph without nodes with zeros under every key
_calculate_summary_zeros(nodes, edges) ==
  IF Len(nodes) = 0
  THEN [total_modules |-> 0,
        total_dependencies |-> Len(edges),
        average_instability |-> Zero,
        average_abstraction |-> Zero,
        instability_distribution |-> [stable |-> 0, moderate |-> 0, unstable |-> 0]]
  ELSE SummaryOf(nodes, edges)

\* _calculate_summary()
_calculate_summary(nodes, edges) ==
  IF Len(nodes) = 0 THEN EmptyDict ELSE SummaryOf(nodes, edges)

\* the risk level with the double threshold itself counted as high
RiskLevel_from_double(total_coupling, threshold) ==
  IF total_coupling >= threshold * 2 THEN "high" ELSE "medium"

\* 'high' if total_coupling > threshold * 2 else 'medium'
RiskLevel(total_coupling, threshold) ==
  IF total_coupling > threshold * 2 THEN "high" ELSE "medium"

\* if total_coupling >= threshold
IsHighCoupling(total_coupling, threshold) == total_coupling >= threshold

\* _identify_high_coupling_modules(threshold)
_identify_high_coupling_modules(nodes, threshold) ==
  LET Total(m) == m.afferent_coupling + m.efferent_coupling
      selected == SelectSeq(nodes, LAMBDA m : IsHighCoupling(Total(m), threshold))
      high_coupling ==
        [i \in 1..Len(selected) |->
           [module |-> selected[i].module_name,
            total_coupling |-> Total(selected[i]),
            afferent |-> selected[i].afferent_coupling,
            efferent |-> selected[i].efferent_coupling,
            instability |-> selected[i].instability,
            risk_level |-> RiskLevel(Total(selected[i]), threshold)]]
  IN SortDescending(high_coupling,
                    [i \in 1..Len(high_coupling) |-> high_coupling[i].total_coupling])

\* the default of the parameter threshold
DefaultThreshold == 10

\* one entry of the first loop of _detect_architecture_violations
CycleViolation(cycle) ==
  [type |-> "cyclic_dependency", severity |-> "high", modules |-> cycle]

\* one entry of the second loop of _detect_architecture_violations
UnstableViolation(module_name, dep) ==
  [type |-> "unstable_to_unstable", severity |-> "medium",
   from |-> module_name, to |-> dep.target_module]

\* module.instability > 0.7
IsUnstable(module) == FracLess(UnstableAbove, module.instability)

\* the test of the target without its instability
TargetIsUnstable_any(g, mods, dep) ==
  \E j \in 1..Len(g.nodes) : g.nodes[j] = dep.target_module

\* target = self.graph.nodes.get(dep.target_module);
\* if target and target.instability > 0.7
TargetIsUnstable(g, mods, dep) ==
  /\ \E j \in 1..Len(g.nodes) : g.nodes[j] = dep.target_module
  /\ IsUnstable(Get(mods, dep.target_module))

\* the inner loop over module.dependencies[j..] of one unstable module
RECURSIVE UnstableFrom(_, _, _, _)
UnstableFrom(g, mods, module, j) ==
  IF j > Len(module.dependencies) THEN <<>>
  ELSE (IF TargetIsUnstable(g, mods, module.dependencies[j])
        THEN <<UnstableViolation(module.module_name, module.dependencies[j])>>
        ELSE <<>>)
       \o UnstableFrom(g, mods, module, j + 1)

\* the second loop of _detect_architecture_violations over the nodes i..
RECURSIVE UnstableViolations(_, _, _)
UnstableViolations(g, mods, i) ==
  IF i > Len(g.nodes) THEN <<>>
  ELSE (IF IsUnstable(Get(mods, g.nodes[i]))
        THEN UnstableFrom(g, mods, Get(mods, g.nodes[i]), 1)
        ELSE <<>>)
       \o UnstableViolations(g, mods, i + 1)

\* the two loops of _detect_architecture_violations, given the cycles its
\* detector returned
ViolationsWith(cycles, g, mods) ==
  [c \in 1..Len(cycles) |-> CycleViolation(cycles[c])]
    \o UnstableViolations(g, mods, 1)

\* _detect_architecture_violations()
_detect_architecture_violations(g, mods) ==
  ViolationsWith(detect_cycles(g, mods), g, mods)

\* m.abstraction < 0.2 and m.instability > 0.5
IsLowAbstraction(m) ==
  FracLess(m.abstraction, Frac(2, 10)) /\ FracLess(Frac(5, 10), m.instability)

\* _generate_recommendations()
_generate_recommendations(nodes) ==
  LET high_coupling == _identify_high_coupling_modules(nodes, DefaultThreshold)
      low_abstraction == SelectSeq(nodes, IsLowAbstraction)
  IN (IF high_coupling # <<>>
      THEN << [category |-> "reduce_coupling", priority |-> "high",
               modules |-> [i \in 1..Len(Take(high_coupling, 3)) |->
                              high_coupling[i].module]] >>
      ELSE <<>>)
     \o << [category |-> "dependency_inversion", priority |-> "medium"] >>
     \o (IF low_abstraction # <<>>
         THEN << [category |-> "increase_abstraction", priority |-> "medium",
                  modules |-> [i \in 1..Len(low_abstraction) |->
                                 low_abstraction[i].module_name]] >>
         ELSE <<>>)

\* analyze_coupling()
analyze_coupling(g, mods) ==
  [summary |-> _calculate_summary(GraphNodes(g, mods), g.edges),
   high_coupling |-> _identify_high_coupling_modules(GraphNodes(g, mods),
                                                     DefaultThreshold),
   violations |-> _detect_architecture_violations(g, mods),
   recommendations |-> _generate_recommendations(GraphNodes(g, mods))]

\* the details with the severity taken of the cycle without its closing name
get_cycle_details_open(cycles) ==
  [i \in 1..Len(cycles) |->
     [cycle_id |-> i,
      modules |-> cycles[i],
      length |-> Len(cycles[i]) - 1,
      severity |-> _assess_severity(SubSeq(cycles[i], 1, Len(cycles[i]) - 1))]]

\* summary.get(key, default) of the report
GetOr(dict, key, default) == IF key \in DOMAIN dict THEN dict[key] ELSE default

\* get_cycle_details(cycles); the breaking suggestions are left out
get_cycle_details(cycles) ==
  [i \in 1..Len(cycles) |->
     [cycle_id |-> i,
      modules |-> cycles[i],
      length |-> Len(cycles[i]) - 1,
      severity |-> _assess_severity(cycles[i])]]

(***************************************************************************)
(* The inputs of the model.                                                *)
(***************************************************************************)
\* raw module names of the records: "", ".a", "a", "a/y"; they normalise to
\* "root", "", "a", "a"
RawNames ==
  { <<>>, <<".","a">>, <<"a">>, <<"a","/","y">> }

\* relative paths of the analysed files: "", "a/__init__.py", "root/m"
RelPaths ==
  { <<>>, <<"a","/">> \o INIT_PY, ROOT \o <<"/","m">> }

\* class lists a holder of the builder may put on a node
ClassInfo ==
  { [core_classes |-> << <<"A","b","s","t","r","a","c","t","X">> >>,
     public_interfaces |-> <<>>],
    [core_classes |-> << <<"I","n","t","e","r","f","a","c","e">>, <<"F","o","o">> >>,
     public_interfaces |-> <<>>],
    [core_classes |-> << <<"F","o","o">> >>,
     public_interfaces |-> << <<"r","u","n">> >>] }

(***************************************************************************)
(* The state machine: one build_graph call, then detect_cycles calls.      *)
(***************************************************************************)
VARIABLES
  modules,    \* self.modules of the builder
  graph,      \* self.graph: nodes (keys in order) and edges
  build_pc,   \* "building", "measured" (after _calculate_metrics), "built"
  ninputs,    \* inputs consumed by the build so far
  detect_pc,  \* "idle", "running", "done": the detect_cycles call
  dfs,        \* the locals of the running detect_cycles call
  result,     \* the list the last detect_cycles call returned
  last_call,  \* the last call on the builder: its name, its argument and,
              \* for _add_dependency, whether its locals existing and
              \* existing_rev were non-empty
  call,       \* a call of one method on its own: name, argument, value returned
  analysis,   \* the dict the last analyze_coupling call returned
  readers     \* the calls running side by side on one built graph

vars ==
  <<modules, graph, build_pc, ninputs, detect_pc, dfs, result, last_call,
    call, analysis, readers>>

\* no method was called on its own
NoCall == [fn |-> "none", arg |-> <<>>, out |-> <<>>, returned |-> FALSE]

\* no call is running on the graph
NoReaders == <<>>

\* a caller of detect_cycles or analyze_coupling that has not called yet; dfs
\* holds the locals of its detect_cycles call, out the value returned so far,
\* overlapped whether another call was running when this one began
IdleReader ==
  [fn |-> "none", pc |-> "idle", dfs |-> DfsInit, out |-> <<>>,
   overlapped |-> FALSE]

\* the arguments of a call without arguments; the arguments of a call are a
\* record, one field for each
NoArgs == [args |-> <<>>]

Call(op, arg, ex, ex_rev) ==
  [op |-> op, arg |-> arg, existing |-> ex, existing_rev |-> ex_rev]

\* the locals existing and existing_rev of _add_dependency(dependency): TRUE
\* when the list is computed and is not empty
ExistingIn(mods, dependency) ==
  /\ ~IsSelfReference(dependency)
  /\ SourceOf(dependency) \in KeySet(mods)
  /\ existing(mods, SourceOf(dependency), TargetOf(dependency),
              dependency.dependency_type) # <<>>

ExistingRevIn(mods, dependency) ==
  /\ ~IsSelfReference(dependency)
  /\ TargetOf(dependency) \in KeySet(mods)
  /\ existing_rev(mods, SourceOf(dependency), TargetOf(dependency)) # <<>>

Init ==
  /\ modules = <<>>
  /\ graph = DependencyGraph
  /\ build_pc = "building"
  /\ ninputs = 0
  /\ detect_pc = "idle"
  /\ dfs = DfsInit
  /\ result = <<>>
  /\ last_call = Call("none", NoArgs, FALSE, FALSE)
  /\ call = NoCall
  /\ analysis = EmptyDict
  /\ readers = NoReaders

\* build_graph, the head of its loop: the module of one analysed file is
\* registered
CollectModule(rel_path) ==
  /\ build_pc = "building"
  /\ ninputs < MaxInputs
  /\ modules' = EnsureModule(modules, _get_module_name(rel_path))
  /\ ninputs' = ninputs + 1
  /\ last_call' = Call("collect", [rel_path |-> rel_path], FALSE, FALSE)
  /\ UNCHANGED <<call, analysis, readers, graph, build_pc, detect_pc, dfs, result>>

\* build_graph, the body of its loop: one extracted record is added
AddDependency(dependency) ==
  /\ build_pc = "building"
  /\ ninputs < MaxInputs
  /\ modules' = _add_dependency(modules, dependency)
  /\ ninputs' = ninputs + 1
  /\ last_call' = Call("add", dependency, ExistingIn(modules, dependency),
                       ExistingRevIn(modules, dependency))
  /\ UNCHANGED <<call, analysis, readers, graph, build_pc, detect_pc, dfs, result>>

\* the holder of the builder fills core_classes and public_interfaces of a
\* registered node (no method of the builder writes these fields)
SetClasses(name, info) ==
  /\ build_pc = "building"
  /\ ninputs < MaxInputs
  /\ name \in KeySet(modules)
  /\ modules' = [modules EXCEPT
                   ![IndexOf(modules, name)].core_classes = info.core_classes,
                   ![IndexOf(modules, name)].public_interfaces = info.public_interfaces]
  /\ ninputs' = ninputs + 1
  /\ last_call' = Call("classes", [module_name |-> name], FALSE, FALSE)
  /\ UNCHANGED <<call, analysis, readers, graph, build_pc, detect_pc, dfs, result>>

\* build_graph: self._calculate_metrics()
CalculateMetrics ==
  /\ build_pc = "building"
  /\ modules' = _calculate_metrics(modules)
  /\ build_pc' = "measured"
  /\ last_call' = Call("metrics", NoArgs, FALSE, FALSE)
  /\ UNCHANGED <<call, analysis, readers, graph, ninputs, detect_pc, dfs, result>>

\* build_graph: self._build_graph_structure(); return self.graph
BuildGraphStructure ==
  /\ build_pc = "measured"
  /\ graph' = _build_graph_structure(graph, modules)
  /\ build_pc' = "built"
  /\ last_call' = Call("structure", NoArgs, FALSE, FALSE)
  /\ UNCHANGED <<call, analysis, readers, modules, ninputs, detect_pc, dfs, result>>

\* detect_cycles: cycles = [], visited = set(), rec_stack = set(), path = []
DetectStart ==
  /\ build_pc = "built"
  /\ detect_pc = "idle"
  /\ dfs' = DfsInit
  /\ detect_pc' = "running"
  /\ UNCHANGED <<call, analysis, readers, modules, graph, build_pc, ninputs, result, last_call>>

\* detect_cycles: the outer loop looks at the next node of graph.nodes
DetectOuter ==
  /\ detect_pc = "running"
  /\ dfs.frames = <<>>
  /\ dfs.k <= Len(graph.nodes)
  /\ dfs' = OuterStep(graph, dfs)
  /\ UNCHANGED <<call, analysis, readers, modules, graph, build_pc, ninputs, detect_pc, result, last_call>>

\* detect_cycles: the innermost dfs call looks at its next dependency
DetectDfs ==
  /\ detect_pc = "running"
  /\ dfs.frames # <<>>
  /\ dfs' = DfsStep(graph, modules, dfs)
  /\ UNCHANGED <<call, analysis, readers, modules, graph, build_pc, ninputs, detect_pc, result, last_call>>

\* detect_cycles: return self._unique_cycles(cycles)
DetectReturn ==
  /\ detect_pc = "running"
  /\ DfsFinished(graph, dfs)
  /\ result' = _unique_cycles(dfs.cycles)
  /\ detect_pc' = "done"
  /\ UNCHANGED <<call, analysis, readers, modules, graph, build_pc, ninputs, dfs, last_call>>

Next ==
  \/ \E rel_path \in RelPaths : CollectModule(rel_path)
  \/ \E s \in RawNames, t \in RawNames, type \in DependencyType :
       AddDependency(Dependency(s, t, type))
  \/ \E name \in KeySet(modules), info \in ClassInfo : SetClasses(name, info)
  \/ CalculateMetrics
  \/ BuildGraphStructure
  \/ DetectStart
  \/ DetectOuter
  \/ DetectDfs
  \/ DetectReturn

Spec == Init /\ [][Next]_vars

\* what a detect_cycles call writes
detect_vars == <<detect_pc, dfs, result>>

\* detect_cycles is one sequential call: once it has begun, the interpreter
\* runs its next statement, so no step of the call that can be taken is put
\* off for ever
SpecFair ==
  /\ Spec
  /\ WF_detect_vars(DetectOuter)
  /\ WF_detect_vars(DetectDfs)
  /\ WF_detect_vars(DetectReturn)

(***************************************************************************)
(* check_bounding_boxes.get_bounding_box_messages.  A rectangle is         *)
(* <<left, top, right, bottom>>; a message is rendered by its kind (the    *)
(* word its text begins with) and the positions of the boxes it names.     *)
(***************************************************************************)
\* rects_intersect(r1, r2)
rects_intersect(r1, r2) ==
  LET disjoint_horizontal == r1[1] >= r2[3] \/ r1[3] <= r2[1]
      disjoint_vertical == r1[2] >= r2[4] \/ r1[4] <= r2[2]
  IN ~(disjoint_horizontal \/ disjoint_vertical)

\* rects_and_fields: for every field its label box, then its entry box; the
\* field is kept by its position in form_fields ('is' compares identity)
RectAndField(rect, rect_type, field) ==
  [rect |-> rect, rect_type |-> rect_type, field |-> field]

RECURSIVE RectsAndFields(_, _)
RectsAndFields(form_fields, f) ==
  IF f > Len(form_fields) THEN <<>>
  ELSE << RectAndField(form_fields[f].label_bounding_box, "label", f),
          RectAndField(form_fields[f].entry_bounding_box, "entry", f) >>
       \o RectsAndFields(form_fields, f + 1)

\* if len(messages) >= 20
MessageLimit == 20

\* ri.field["entry_text"].get("font_size", 14)
DefaultFontSize == 14

\* messages.append(FAILURE ...); if len(messages) >= 20: append the abort
\* line and return
AppendFailure(st, message) ==
  LET messages == Append(st.messages, message)
  IN IF Len(messages) >= MessageLimit
     THEN [messages |-> Append(messages, [kind |-> "abort"]),
           has_error |-> TRUE, returned |-> TRUE]
     ELSE [messages |-> messages, has_error |-> TRUE, returned |-> FALSE]

\* if ri.field["page_number"] == rj.field["page_number"]
\*    and rects_intersect(ri.rect, rj.rect)
SamePageIntersect(form_fields, ri, rj) ==
  /\ form_fields[ri.field].page_number = form_fields[rj.field].page_number
  /\ rects_intersect(ri.rect, rj.rect)

\* for j in range(i + 1, len(rects_and_fields)), from position j
RECURSIVE InnerLoop(_, _, _, _, _)
InnerLoop(form_fields, rfs, i, j, st) ==
  IF st.returned \/ j > Len(rfs) THEN st
  ELSE InnerLoop(form_fields, rfs, i, j + 1,
         IF SamePageIntersect(form_fields, rfs[i], rfs[j])
         THEN AppendFailure(st, [kind |-> "FAILURE",
                                 what |-> IF rfs[i].field = rfs[j].field
                                          THEN "label_entry" ELSE "fields",
                                 i |-> i, j |-> j])
         ELSE st)

\* if ri.rect_type == "entry": if "entry_text" in ri.field: ...
HeightCheck(form_fields, rfs, i, st) ==
  IF st.returned THEN st
  ELSE IF rfs[i].rect_type = "entry"
          /\ "entry_text" \in DOMAIN form_fields[rfs[i].field]
       THEN LET font_size == GetOr(form_fields[rfs[i].field].entry_text,
                                   "font_size", DefaultFontSize)
                entry_height == rfs[i].rect[4] - rfs[i].rect[2]
            IN IF entry_height < font_size
               THEN AppendFailure(st, [kind |-> "FAILURE", what |-> "height",
                                       i |-> i, j |-> i])
               ELSE st
       ELSE st

\* for i, ri in enumerate(rects_and_fields), from position i
RECURSIVE OuterLoop(_, _, _, _)
OuterLoop(form_fields, rfs, i, st) ==
  IF st.returned \/ i > Len(rfs) THEN st
  ELSE OuterLoop(form_fields, rfs, i + 1,
         HeightCheck(form_fields, rfs, i,
                     InnerLoop(form_fields, rfs, i, i + 1, st)))

\* get_bounding_box_messages with has_error left unset by an overlap
get_bounding_box_messages_unflagged(form_fields) ==
  LET rfs == RectsAndFields(form_fields, 1)
      st == OuterLoop(form_fields, rfs, 1,
              [messages |-> << [kind |-> "read", count |-> Len(form_fields)] >>,
               has_error |-> FALSE, returned |-> FALSE])
      height_error == \E m \in 1..Len(st.messages) :
                         /\ st.messages[m].kind = "FAILURE"
                         /\ st.messages[m].what = "height"
  IN IF st.returned THEN st.messages
     ELSE IF ~height_error THEN Append(st.messages, [kind |-> "SUCCESS"])
     ELSE st.messages

\* get_bounding_box_messages(fields_json_stream), on the form_fields of the
\* parsed stream
get_bounding_box_messages(form_fields) ==
  LET rfs == RectsAndFields(form_fields, 1)
      st == OuterLoop(form_fields, rfs, 1,
              [messages |-> << [kind |-> "read", count |-> Len(form_fields)] >>,
               has_error |-> FALSE, returned |-> FALSE])
  IN IF st.returned THEN st.messages
     ELSE IF ~st.has_error THEN Append(st.messages, [kind |-> "SUCCESS"])
     ELSE st.messages

\* label and entry boxes of a field: touching at an edge; overlapping; apart
\* from the others with an entry box 12 high
BoxPairs ==
  { << <<0, 0, 10, 10>>, <<10, 0, 20, 14>> >>,
    << <<0, 0, 10, 10>>, <<5, 5, 15, 25>> >>,
    << <<0, 20, 10, 30>>, <<10, 20, 20, 32>> >> }

PageNumbers == {1, 2}

\* fields without entry_text, with entry_text without font_size, with font
\* size 10
FormFieldPool ==
  UNION {{ [page_number |-> page, label_bounding_box |-> b[1],
            entry_bounding_box |-> b[2]],
           [page_number |-> page, label_bounding_box |-> b[1],
            entry_bounding_box |-> b[2], entry_text |-> EmptyDict],
           [page_number |-> page, label_bounding_box |-> b[1],
            entry_bounding_box |-> b[2], entry_text |-> [font_size |-> 10]] } :
         page \in PageNumbers, b \in BoxPairs}

\* a field whose boxes overlap one another and those of its copies
CrowdedField ==
  [page_number |-> 1, label_bounding_box |-> <<0, 0, 10, 10>>,
   entry_bounding_box |-> <<5, 5, 15, 25>>]

FormFieldLists ==
  UNION {[1..n -> FormFieldPool] : n \in 0..MaxFields}
  \cup {[i \in 1..n |-> CrowdedField] : n \in 3..MaxCrowd}

(***************************************************************************)
(* Methods called on their own: _unique_cycles and get_cycle_details on    *)
(* lists of cycles, _normalize_module_name on names,                       *)
(* _identify_high_coupling_modules on nodes with given coupling counts.    *)
(***************************************************************************)
NameA == <<"a">>

NameEmpty == <<>>

\* the closed list of the names of seq, back to its first name
Closed(seq) == Append(seq, seq[1])

\* names of the longer cycles, in the order they are walked
Letters == << <<"c">>, <<"a">>, <<"d">>, <<"b">>, <<"g">>, <<"e">>, <<"f">> >>

\* cycles as the dfs records them: over "", "a", "root" every closed walk of
\* two and of three modules from every start, and one walk of 4, 5, 6, 7 modules
CyclePool ==
  {Closed(<<x, y>>) : <<x, y>> \in {p \in {NameEmpty, NameA, ROOT} \X {NameEmpty, NameA, ROOT} : p[1] # p[2]}}
  \cup {Closed(<<NameEmpty, NameA, ROOT>>), Closed(<<NameA, ROOT, NameEmpty>>),
        Closed(<<ROOT, NameEmpty, NameA>>), Closed(<<NameEmpty, ROOT, NameA>>),
        Closed(<<ROOT, NameA, NameEmpty>>), Closed(<<NameA, NameEmpty, ROOT>>)}
  \cup {Closed(SubSeq(Letters, 1, n)) : n \in 4..Len(Letters)}

CycleLists == UNION {[1..n -> CyclePool] : n \in 0..MaxCycles}

\* the pieces of the names: "src", "lib", "foo", "bar", ".", "/"
Pieces ==
  { <<"s","r","c">>, <<"l","i","b">>, <<"f","o","o">>, <<"b","a","r">>,
    <<".">>, <<"/">> }

RECURSIVE Concat(_, _)
Concat(parts, i) ==
  IF i > Len(parts) THEN <<>> ELSE parts[i] \o Concat(parts, i + 1)

NamePool == {Concat(parts, 1) : parts \in UNION {[1..n -> Pieces] : n \in 0..MaxParts}}

\* coupling counts of the nodes handed to _identify_high_coupling_modules
AfferentPool == {0, 1, 10, 11}

EfferentPool == {0, 1, 10}

ThresholdPool == {1, DefaultThreshold}

\* a node of a graph with afferent incoming and efferent outgoing entries, as
\* the metrics pass leaves it; the lists themselves are not read by the method
MeasuredNode(name, afferent, efferent) ==
  [ModuleDependencyInfo(name) EXCEPT
     !.afferent_coupling = afferent,
     !.efferent_coupling = efferent,
     !.instability = InstabilityOf(afferent, efferent),
     !.distance = DistanceOf(Zero, InstabilityOf(afferent, efferent))]

NodeNames == <<NameA, NameEmpty, ROOT>>

NodeLists ==
  UNION {{[i \in 1..n |-> MeasuredNode(NodeNames[i], c[i][1], c[i][2])] :
            c \in [1..n -> AfferentPool \X EfferentPool]} : n \in 0..Len(NodeNames)}

\* names of the nodes of a registry handed to _identify_core_modules
ScoredNames == Letters \o << <<"h">>, <<"i">> >>

\* afferent counts of these nodes; their efferent count is 0 or 1
ScorePool == {0, 1, 2}

\* registries of up to MaxNodes measured nodes
ScoredLists ==
  UNION {{[i \in 1..n |-> MeasuredNode(ScoredNames[i], c[i], IF c[i] = 2 THEN 1 ELSE 0)] :
            c \in [1..n -> ScorePool]} : n \in 0..MaxNodes}

\* records added to one builder: a -> root twice under two raw names and two
\* kinds, root -> a, '' -> a, and a -> a under two raw names
BatchPool ==
  { Dependency(<<"a">>, <<>>, "import"),
    Dependency(<<"a","/","y">>, <<>>, "inherit"),
    Dependency(<<>>, <<"a">>, "import"),
    Dependency(<<".","a">>, <<"a">>, "import"),
    Dependency(<<"a">>, <<"a","/","y">>, "import") }

RecordLists ==
  UNION {[1..n -> BatchPool] : n \in 1..MaxBatch}

FnCalls ==
  {[fn |-> "_unique_cycles", arg |-> cycles, out |-> <<>>, returned |-> FALSE] :
     cycles \in CycleLists}
  \cup {[fn |-> "_normalize_module_name", arg |-> name, out |-> <<>>, returned |-> FALSE] :
          name \in NamePool}
  \cup {[fn |-> "_identify_high_coupling_modules",
         arg |-> [nodes |-> nodes, threshold |-> threshold],
         out |-> <<>>, returned |-> FALSE] :
          nodes \in NodeLists, threshold \in ThresholdPool}
  \cup {[fn |-> "_build_graph_structure", arg |-> mods, out |-> <<>>,
         returned |-> FALSE] : mods \in ScoredLists}
  \cup {[fn |-> "get_bounding_box_messages", arg |-> form_fields, out |-> <<>>,
         returned |-> FALSE] : form_fields \in FormFieldLists}
  \cup {[fn |-> "_add_dependency", arg |-> records, out |-> <<>>,
         returned |-> FALSE] : records \in RecordLists}

InitFn ==
  /\ modules = <<>>
  /\ graph = DependencyGraph
  /\ build_pc = "building"
  /\ ninputs = 0
  /\ detect_pc = "idle"
  /\ dfs = DfsInit
  /\ result = <<>>
  /\ last_call = Call("none", NoArgs, FALSE, FALSE)
  /\ call \in FnCalls
  /\ analysis = EmptyDict
  /\ readers = NoReaders

builder_vars ==
  <<modules, graph, build_pc, ninputs, detect_pc, dfs, result, last_call,
    analysis, readers>>

\* self._unique_cycles(cycles)
UniqueCycles ==
  /\ call.fn = "_unique_cycles"
  /\ ~call.returned
  /\ call' = [call EXCEPT !.out = _unique_cycles(call.arg), !.returned = TRUE]
  /\ UNCHANGED builder_vars

\* get_cycle_details(cycles) on the list detection returned
GetCycleDetails ==
  /\ call.fn = "_unique_cycles"
  /\ call.returned
  /\ call' = [fn |-> "get_cycle_details", arg |-> call.out,
              out |-> get_cycle_details(call.out), returned |-> TRUE]
  /\ UNCHANGED builder_vars

\* self._normalize_module_name(module_name)
NormalizeModuleName ==
  /\ call.fn = "_normalize_module_name"
  /\ ~call.returned
  /\ call' = [call EXCEPT !.out = _normalize_module_name(call.arg),
                          !.returned = TRUE]
  /\ UNCHANGED builder_vars

\* self._identify_high_coupling_modules(threshold)
IdentifyHighCoupling ==
  /\ call.fn = "_identify_high_coupling_modules"
  /\ ~call.returned
  /\ call' = [call EXCEPT
                !.out = _identify_high_coupling_modules(call.arg.nodes,
                                                        call.arg.threshold),
                !.returned = TRUE]
  /\ UNCHANGED builder_vars

\* _build_graph_structure: 'max_coupling': self._find_max_coupling_module(),
\* 'core_modules': self._identify_core_modules(5)
IdentifyCoreModules ==
  /\ call.fn = "_build_graph_structure"
  /\ ~call.returned
  /\ call' = [call EXCEPT
                !.out = [max_coupling |-> _find_max_coupling_module(call.arg),
                         core_modules |->
                           _identify_core_modules(call.arg, CoreModuleCount)],
                !.returned = TRUE]
  /\ UNCHANGED builder_vars

\* messages = get_bounding_box_messages(f)
GetBoundingBoxMessages ==
  /\ call.fn = "get_bounding_box_messages"
  /\ ~call.returned
  /\ call' = [call EXCEPT !.out = get_bounding_box_messages(call.arg),
                          !.returned = TRUE]
  /\ UNCHANGED builder_vars

\* build_graph on a new builder: for dep in dependencies:
\* self._add_dependency(dep), then self._calculate_metrics()
AddDependencies ==
  /\ call.fn = "_add_dependency"
  /\ ~call.returned
  /\ call' = [call EXCEPT !.out = AddAll(call.arg), !.returned = TRUE]
  /\ UNCHANGED builder_vars

NextFn ==
  \/ AddDependencies
  \/ GetBoundingBoxMessages
  \/ IdentifyCoreModules
  \/ UniqueCycles
  \/ GetCycleDetails
  \/ NormalizeModuleName
  \/ IdentifyHighCoupling

SpecFn == InitFn /\ [][NextFn]_vars

(***************************************************************************)
(* A build followed by DependencyAnalyzer.analyze: detect_cycles and       *)
(* analyze_coupling on the graph of up to MaxRecords records between the   *)
(* modules s, t and z.                                                     *)
(***************************************************************************)
NameS == <<"s">>

NameT == <<"t">>

NameZ == <<"z">>

\* s and t depend on one another by import and by inheritance, and both
\* depend on z
RecordPool ==
  { Dependency(NameS, NameT, "import"), Dependency(NameS, NameT, "inherit"),
    Dependency(NameS, NameZ, "import"),
    Dependency(NameT, NameS, "import"), Dependency(NameT, NameS, "inherit"),
    Dependency(NameT, NameZ, "import") }

\* build_graph, the body of its loop: one extracted record is added
AddRecord(dependency) ==
  /\ build_pc = "building"
  /\ ninputs < MaxRecords
  /\ modules' = _add_dependency(modules, dependency)
  /\ ninputs' = ninputs + 1
  /\ last_call' = Call("add", dependency, ExistingIn(modules, dependency),
                       ExistingRevIn(modules, dependency))
  /\ UNCHANGED <<call, analysis, readers, graph, build_pc, detect_pc, dfs, result>>

\* analyze: coupling_analysis = coupling_analyzer.analyze_coupling()
AnalyzeCoupling ==
  /\ build_pc = "built"
  /\ detect_pc \in {"idle", "done"}
  /\ call = NoCall
  /\ analysis' = analyze_coupling(graph, modules)
  /\ call' = [fn |-> "analyze_coupling", arg |-> <<>>, out |-> <<>>,
              returned |-> TRUE]
  /\ UNCHANGED <<modules, graph, build_pc, ninputs, detect_pc, dfs, result,
                 last_call, readers>>

NextAnalysis ==
  \/ \E dependency \in RecordPool : AddRecord(dependency)
  \/ CalculateMetrics
  \/ BuildGraphStructure
  \/ DetectStart
  \/ DetectOuter
  \/ DetectDfs
  \/ DetectReturn
  \/ AnalyzeCoupling

SpecAnalysis == Init /\ [][NextAnalysis]_vars

(***************************************************************************)
(* Two callers on one built graph: each calls detect_cycles or             *)
(* analyze_coupling once, and their steps interleave.  The locals of a     *)
(* detect_cycles call (cycles, visited, rec_stack, path, the dfs frames)   *)
(* belong to the call; analyze_coupling runs its four parts in turn, the   *)
(* third on a CycleDetector of its own.                                    *)
(***************************************************************************)
ReaderIds == {1, 2}

SharedPool ==
  { Dependency(NameS, NameT, "import"), Dependency(NameT, NameS, "import"),
    Dependency(NameT, NameZ, "import") }

InitReaders ==
  /\ modules = <<>>
  /\ graph = DependencyGraph
  /\ build_pc = "building"
  /\ ninputs = 0
  /\ detect_pc = "idle"
  /\ dfs = DfsInit
  /\ result = <<>>
  /\ last_call = Call("none", NoArgs, FALSE, FALSE)
  /\ call = NoCall
  /\ analysis = EmptyDict
  /\ readers = [r \in ReaderIds |-> IdleReader]

\* build_graph, the body of its loop: one extracted record is added
AddShared(dependency) ==
  /\ build_pc = "building"
  /\ ninputs < MaxShared
  /\ modules' = _add_dependency(modules, dependency)
  /\ ninputs' = ninputs + 1
  /\ last_call' = Call("add", dependency, ExistingIn(modules, dependency),
                       ExistingRevIn(modules, dependency))
  /\ UNCHANGED <<call, analysis, readers, graph, build_pc, detect_pc, dfs, result>>

\* a call other than that of caller r is running
OtherRunning(rs, r) ==
  \E q \in DOMAIN rs : q # r /\ rs[q].pc \notin {"idle", "done"}

shared_vars ==
  <<modules, graph, build_pc, ninputs, detect_pc, dfs, result, last_call,
    call, analysis>>

\* one step of the two loops of detect_cycles on the locals of caller r, with
\* the set visited written to the locals of every caller
StepReader_shared_visited(rs, r, g, mods) ==
  LET stepped == DetectStep(g, mods, rs[r].dfs)
  IN [i \in DOMAIN rs |->
        IF i = r THEN [rs[i] EXCEPT !.dfs = stepped]
        ELSE [rs[i] EXCEPT !.dfs.visited = stepped.visited]]

\* one step of the two loops of detect_cycles on the locals of caller r
StepReader(rs, r, g, mods) ==
  [rs EXCEPT ![r].dfs = DetectStep(g, mods, rs[r].dfs)]

\* detect_cycles(): cycles = [], visited = set(), rec_stack = set(), path = []
ReaderDetectStart(r) ==
  /\ build_pc = "built"
  /\ readers[r].pc = "idle"
  /\ readers' = [readers EXCEPT ![r] = [fn |-> "detect_cycles", pc |-> "dfs",
                                         dfs |-> DfsInit, out |-> <<>>,
                                         overlapped |-> OtherRunning(readers, r)]]
  /\ UNCHANGED shared_vars

\* analyze_coupling(): result = {'summary': {}, 'high_coupling': [], ...};
\* result['summary'] = self._calculate_summary()
ReaderSummary(r) ==
  /\ build_pc = "built"
  /\ readers[r].pc = "idle"
  /\ readers' = [readers EXCEPT ![r] =
       [fn |-> "analyze_coupling", pc |-> "high_coupling", dfs |-> DfsInit,
        overlapped |-> OtherRunning(readers, r),
        out |-> [summary |-> _calculate_summary(GraphNodes(graph, modules),
                                                graph.edges),
                 high_coupling |-> <<>>, violations |-> <<>>,
                 recommendations |-> <<>>]]]
  /\ UNCHANGED shared_vars

\* result['high_coupling'] = self._identify_high_coupling_modules(); then
\* _detect_architecture_violations makes its CycleDetector and calls
\* detect_cycles()
ReaderHighCoupling(r) ==
  /\ readers[r].pc = "high_coupling"
  /\ readers' = [readers EXCEPT
       ![r].out.high_coupling =
          _identify_high_coupling_modules(GraphNodes(graph, modules),
                                          DefaultThreshold),
       ![r].dfs = DfsInit,
       ![r].pc = "dfs"]
  /\ UNCHANGED shared_vars

\* the detect_cycles call of caller r takes one step of its loops
ReaderDfs(r) ==
  /\ readers[r].pc = "dfs"
  /\ ~DfsFinished(graph, readers[r].dfs)
  /\ readers' = StepReader(readers, r, graph, modules)
  /\ UNCHANGED shared_vars

\* detect_cycles: return self._unique_cycles(cycles), to the caller
ReaderDetectReturn(r) ==
  /\ readers[r].pc = "dfs"
  /\ readers[r].fn = "detect_cycles"
  /\ DfsFinished(graph, readers[r].dfs)
  /\ readers' = [readers EXCEPT ![r].out = _unique_cycles(readers[r].dfs.cycles),
                                ![r].pc = "done"]
  /\ UNCHANGED shared_vars

\* detect_cycles returns into _detect_architecture_violations, whose two loops
\* give result['violations']
ReaderViolations(r) ==
  /\ readers[r].pc = "dfs"
  /\ readers[r].fn = "analyze_coupling"
  /\ DfsFinished(graph, readers[r].dfs)
  /\ readers' = [readers EXCEPT
       ![r].out.violations =
          ViolationsWith(_unique_cycles(readers[r].dfs.cycles), graph, modules),
       ![r].pc = "recommendations"]
  /\ UNCHANGED shared_vars

\* result['recommendations'] = self._generate_recommendations(); return result
ReaderRecommendations(r) ==
  /\ readers[r].pc = "recommendations"
  /\ readers' = [readers EXCEPT
       ![r].out.recommendations =
          _generate_recommendations(GraphNodes(graph, modules)),
       ![r].pc = "done"]
  /\ UNCHANGED shared_vars

NextReaders ==
  \/ \E dependency \in SharedPool : AddShared(dependency)
  \/ CalculateMetrics
  \/ BuildGraphStructure
  \/ \E r \in ReaderIds : ReaderDetectStart(r)
  \/ \E r \in ReaderIds : ReaderSummary(r)
  \/ \E r \in ReaderIds : ReaderHighCoupling(r)
  \/ \E r \in ReaderIds : ReaderDfs(r)
  \/ \E r \in ReaderIds : ReaderDetectReturn(r)
  \/ \E r \in ReaderIds : ReaderViolations(r)
  \/ \E r \in ReaderIds : ReaderRecommendations(r)

SpecReaders == InitReaders /\ [][NextReaders]_vars

(***************************************************************************)
(* Vocabulary of the properties.                                           *)
(***************************************************************************)
Nodes == 1..Len(modules)

\* module m has a dependencies entry whose target is n
HasEdge(m, n) ==
  /\ m \in KeySet(modules)
  /\ \E j \in 1..Len(Get(modules, m).dependencies) :
       Get(modules, m).dependencies[j].target_module = n

Successors(S) == {n \in KeySet(modules) : \E m \in S : HasEdge(m, n)}

\* the modules reached from the set S by at most k further edges
RECURSIVE ReachWithin(_, _)
ReachWithin(S, k) ==
  IF k = 0 THEN S ELSE ReachWithin(S \cup Successors(S), k - 1)

\* the dependency edges contain a directed cycle
HasDirectedCycle ==
  \E n \in KeySet(modules) : n \in ReachWithin(Successors({n}), Len(modules))

\* FracEq(d, |a + i - 1|), spelled out
IsDistance(d, a, i) ==
  LET sum == Frac(a.num * i.den + i.num * a.den, a.den * i.den)
      diff == sum.num - sum.den
  IN d.den > 0 /\ d.num * sum.den = d.den * (IF diff < 0 THEN 0 - diff ELSE diff)

InUnitInterval(x) == x.den > 0 /\ 0 <= x.num /\ x.num <= x.den

IsIsolated(node) == node.dependencies = <<>> /\ node.dependents = <<>>

CouplingIsCurrent ==
  \A i \in Nodes :
    /\ modules[i].afferent_coupling = Len(modules[i].dependents)
    /\ modules[i].efferent_coupling = Len(modules[i].dependencies)

(***************************************************************************)
(* C1.  As stated: at every point after any sequence of add_dependency     *)
(* calls, every node has afferent_coupling == len(dependents) and          *)
(* efferent_coupling == len(dependencies).                                 *)
(***************************************************************************)
C1_Original == CouplingIsCurrent

\* C1, amended: once the metrics pass has run after the add_dependency calls,
\* every node has afferent_coupling == len(dependents) and
\* efferent_coupling == len(dependencies).
C1_CouplingAfterMetrics == build_pc # "building" => CouplingIsCurrent

C1_Witness ==
  /\ build_pc = "measured"
  /\ \E i \in Nodes : /\ modules[i].afferent_coupling = 1
                      /\ modules[i].efferent_coupling = 2

(***************************************************************************)
(* C2.  Every cycle detect_cycles returns is a closed path of dependency   *)
(* edges: each consecutive pair (m_i, m_i+1) is an edge, and the last      *)
(* module equals the first.                                                *)
(***************************************************************************)
IsClosedPath(cycle) ==
  /\ Len(cycle) >= 2
  /\ cycle[Len(cycle)] = cycle[1]
  /\ \A j \in 1..(Len(cycle) - 1) : HasEdge(cycle[j], cycle[j + 1])

C2_CyclesAreClosedPaths ==
  detect_pc = "done" => \A c \in 1..Len(result) : IsClosedPath(result[c])

(***************************************************************************)
(* C3.  A record whose source and target normalise to the same name is     *)
(* discarded with no change to the builder state, and no dependencies or   *)
(* dependents entry ever has source_module == target_module.               *)
(***************************************************************************)
NoSelfLoop(mods) ==
  \A i \in 1..Len(mods) :
    /\ \A j \in 1..Len(mods[i].dependencies) :
         mods[i].dependencies[j].source_module # mods[i].dependencies[j].target_module
    /\ \A j \in 1..Len(mods[i].dependents) :
         mods[i].dependents[j].source_module # mods[i].dependents[j].target_module

C3_SelfReferenceDiscarded ==
  [][/\ NoSelfLoop(modules')
     /\ (/\ last_call'.op = "add"
         /\ ninputs' = ninputs + 1
         /\ SourceOf(last_call'.arg) = TargetOf(last_call'.arg))
        => modules' = modules]_vars

\* a record with two different raw names that normalise to one name was
\* presented, and that name is no node
C3_Witness ==
  /\ last_call.op = "add"
  /\ last_call.arg.source_module # last_call.arg.target_module
  /\ SourceOf(last_call.arg) = TargetOf(last_call.arg)
  /\ SourceOf(last_call.arg) \notin KeySet(modules)
  /\ modules # <<>>

(***************************************************************************)
(* C4.  No node's dependencies list holds two records with the same        *)
(* (target_module, dependency_type); adding the same (source, target,      *)
(* kind) a second time leaves exactly one such entry.                      *)
(***************************************************************************)
C4_NoDuplicateDependency ==
  \A i \in Nodes :
    \A j, k \in 1..Len(modules[i].dependencies) :
      (/\ modules[i].dependencies[j].target_module
            = modules[i].dependencies[k].target_module
       /\ modules[i].dependencies[j].dependency_type
            = modules[i].dependencies[k].dependency_type) => j = k

\* the last record was found in the source's list, which holds it once
C4_Witness ==
  /\ last_call.op = "add"
  /\ last_call.existing
  /\ Len(existing(modules, SourceOf(last_call.arg), TargetOf(last_call.arg),
                  last_call.arg.dependency_type)) = 1

(***************************************************************************)
(* C5.  For every dependencies and dependents entry stored on any node,    *)
(* both source_module and target_module are keys of the module registry.   *)
(***************************************************************************)
C5_EndpointsAreNodes ==
  \A i \in Nodes :
    /\ \A j \in 1..Len(modules[i].dependencies) :
         /\ modules[i].dependencies[j].source_module \in KeySet(modules)
         /\ modules[i].dependencies[j].target_module \in KeySet(modules)
    /\ \A j \in 1..Len(modules[i].dependents) :
         /\ modules[i].dependents[j].source_module \in KeySet(modules)
         /\ modules[i].dependents[j].target_module \in KeySet(modules)

\* the first record of a build, between two names unknown until then, one of
\* them not in normal form: both endpoints are nodes now
C5_Witness ==
  /\ last_call.op = "add"
  /\ ninputs = 1
  /\ last_call.arg.target_module # TargetOf(last_call.arg)
  /\ Len(modules) = 2
  /\ Get(modules, SourceOf(last_call.arg)).dependencies # <<>>
  /\ Get(modules, TargetOf(last_call.arg)).dependents # <<>>

(***************************************************************************)
(* C6.  A node's dependents list holds at most one entry per depending     *)
(* module, even when that module depends on it through several kinds.      *)
(***************************************************************************)
C6_DependentsOnePerModule ==
  \A i \in Nodes :
    \A j, k \in 1..Len(modules[i].dependents) :
      modules[i].dependents[j].target_module
        = modules[i].dependents[k].target_module => j = k

\* a module with two forward entries of different kinds to one target, which
\* holds one dependents entry
C6_Witness ==
  \E i \in Nodes :
    /\ Len(modules[i].dependencies) = 2
    /\ modules[i].dependencies[1].target_module
         = modules[i].dependencies[2].target_module
    /\ modules[i].dependencies[1].dependency_type
         # modules[i].dependencies[2].dependency_type
    /\ Len(Get(modules, modules[i].dependencies[1].target_module).dependents) = 1

(***************************************************************************)
(* C7.  After the metrics pass every node has instability in [0,1]         *)
(* (exactly 0 when both couplings are 0), abstraction in [0,1], and        *)
(* distance equal to |abstraction + instability - 1|, also in [0,1].       *)
(***************************************************************************)
C7_MetricsInRange ==
  build_pc # "building" =>
    \A i \in Nodes :
      /\ InUnitInterval(modules[i].instability)
      /\ (modules[i].afferent_coupling = 0 /\ modules[i].efferent_coupling = 0)
           => modules[i].instability.num = 0
      /\ InUnitInterval(modules[i].abstraction)
      /\ IsDistance(modules[i].distance, modules[i].abstraction,
                    modules[i].instability)
      /\ InUnitInterval(modules[i].distance)

\* a node with instability and abstraction strictly inside the interval
C7_Witness ==
  /\ build_pc = "measured"
  /\ \E i \in Nodes :
       /\ 0 < modules[i].instability.num
       /\ modules[i].instability.num < modules[i].instability.den
       /\ 0 < modules[i].abstraction.num
       /\ modules[i].abstraction.num < modules[i].abstraction.den

(***************************************************************************)
(* C8.  As stated: for an isolated module, after the metrics pass          *)
(* instability == 0.0 and distance == abstraction.                         *)
(***************************************************************************)
C8_Original ==
  build_pc # "building" =>
    \A i \in Nodes :
      IsIsolated(modules[i]) =>
        /\ FracEq(modules[i].instability, Zero)
        /\ FracEq(modules[i].distance, modules[i].abstraction)

\* C8, amended: for an isolated module, after the metrics pass
\* instability == 0.0 and distance == 1 - abstraction.
C8_IsolatedModule ==
  build_pc # "building" =>
    \A i \in Nodes :
      IsIsolated(modules[i]) =>
        /\ modules[i].instability.den > 0
        /\ modules[i].instability.num = 0
        /\ modules[i].distance.den > 0
        /\ modules[i].abstraction.den > 0
        /\ modules[i].distance.num * modules[i].abstraction.den
             = (modules[i].abstraction.den - modules[i].abstraction.num)
                 * modules[i].distance.den

\* an isolated module with class lists, after the metrics pass
C8_Witness ==
  /\ build_pc = "measured"
  /\ \E i \in Nodes :
       /\ IsIsolated(modules[i])
       /\ modules[i].core_classes # <<>>
       /\ modules[i].abstraction.num > 0

(***************************************************************************)
(* C9.  For a graph of two modules A and B, each depending on the other    *)
(* once, detect_cycles returns exactly one cycle, of length 2 and          *)
(* severity critical, and A.instability == B.instability == 0.5.           *)
(***************************************************************************)
TwoCycleGraph ==
  /\ Len(modules) = 2
  /\ Len(modules[1].dependencies) = 1
  /\ Len(modules[2].dependencies) = 1
  /\ modules[1].dependencies[1].target_module = modules[2].module_name
  /\ modules[2].dependencies[1].target_module = modules[1].module_name

C9_TwoCycle ==
  (detect_pc = "done" /\ TwoCycleGraph) =>
    /\ Len(result) = 1
    /\ Len(result[1]) - 1 = 2
    /\ SetOf(result[1]) = KeySet(modules)
    /\ _assess_severity(result[1]) = "critical"
    /\ FracEq(modules[1].instability, Frac(1, 2))
    /\ FracEq(modules[2].instability, Frac(1, 2))

C9_Witness == detect_pc = "done" /\ TwoCycleGraph /\ Len(result) = 1

(***************************************************************************)
(* C10.  For every graph whose dependency edges contain no directed cycle  *)
(* detect_cycles returns the empty list, whatever the node order.          *)
(***************************************************************************)
C10_AcyclicNoCycles ==
  (detect_pc = "done" /\ ~HasDirectedCycle) => result = <<>>

\* the chain x -> y -> z, with the last link of the chain registered first
C10_Witness ==
  /\ detect_pc = "done"
  /\ ~HasDirectedCycle
  /\ Len(modules) = 3
  /\ HasEdge(modules[3].module_name, modules[1].module_name)
  /\ HasEdge(modules[1].module_name, modules[2].module_name)
  /\ result = <<>>

\* lexicographically smallest of a set of names
IsSmallestOf(name, members) ==
  name \in members /\ \A m \in members : ~StrLess(m, name)

\* closed list o walks the same modules in the same cyclic order as closed list c
IsRotationOf(o, c) ==
  /\ Len(o) = Len(c)
  /\ Len(o) >= 2
  /\ o[Len(o)] = o[1]
  /\ \E shift \in 0..(Len(c) - 2) :
       \A i \in 1..(Len(c) - 1) : o[i] = c[((i - 1 + shift) % (Len(c) - 1)) + 1]

\* position of the first cycle of cycles whose member set is members
FirstWithMembers(cycles, members) ==
  CHOOSE i \in 1..Len(cycles) :
    /\ SetOf(cycles[i]) = members
    /\ \A j \in 1..(i - 1) : SetOf(cycles[j]) # members

UniqueReturned == call.fn = "_unique_cycles" /\ call.returned

\* C11: the list _unique_cycles returns (which is what detect_cycles returns)
\* holds no two cycles with the same set of member modules; every member set
\* of the cycles found is kept exactly once, in the order first found, by the
\* first cycle found with that set, whatever the rotation or the direction of
\* the later ones.
C11_OneCyclePerMemberSet ==
  UniqueReturned =>
    /\ \A i, j \in 1..Len(call.out) :
         SetOf(call.out[i]) = SetOf(call.out[j]) => i = j
    /\ {SetOf(call.out[i]) : i \in 1..Len(call.out)}
         = {SetOf(call.arg[i]) : i \in 1..Len(call.arg)}
    /\ \A i \in 1..Len(call.out) :
         IsRotationOf(call.out[i],
                      call.arg[FirstWithMembers(call.arg, SetOf(call.out[i]))])
    /\ \A i, j \in 1..Len(call.out) :
         i < j => FirstWithMembers(call.arg, SetOf(call.out[i]))
                    < FirstWithMembers(call.arg, SetOf(call.out[j]))

\* two cycles of three modules with the same members walked in opposite
\* directions were collapsed into the first
C11_Witness ==
  /\ UniqueReturned
  /\ Len(call.arg) = 2
  /\ Len(call.out) = 1
  /\ Len(call.arg[1]) = 4
  /\ SetOf(call.arg[1]) = SetOf(call.arg[2])
  /\ ~IsRotationOf(call.arg[2], call.arg[1])
  /\ IsRotationOf(call.out[1], call.arg[1])

\* C12: every returned cycle starts, and as closing duplicate ends, at the
\* lexicographically smallest of its member modules, and is a rotation of the
\* cycle as found: same cyclic order, same member set.
C12_RotatedToSmallest ==
  UniqueReturned =>
    \A i \in 1..Len(call.out) :
      LET o == call.out[i]
          c == call.arg[FirstWithMembers(call.arg, SetOf(o))]
      IN /\ IsSmallestOf(o[1], SetOf(o))
         /\ o[Len(o)] = o[1]
         /\ IsRotationOf(o, c)
         /\ SetOf(o) = SetOf(c)

\* a cycle of at least four modules found from a start that is not its
\* smallest module was rotated
C12_Witness ==
  /\ UniqueReturned
  /\ \E i \in 1..Len(call.out) :
       LET o == call.out[i]
           c == call.arg[FirstWithMembers(call.arg, SetOf(o))]
       IN /\ Len(o) >= 5
          /\ o # c
          /\ ~IsSmallestOf(c[1], SetOf(c))

DetailsReturned == call.fn = "get_cycle_details" /\ call.returned

\* severity of a cycle of L edges as the specification tabulates it
SeverityOfLength(L) ==
  CASE L = 2 -> "critical"
    [] L = 3 -> "high"
    [] L \in {4, 5} -> "medium"
    [] L > 5 -> "low"

\* C13: the severity in a cycle's details depends only on its number of edges
\* L, the list length minus one: 2 critical, 3 high, 4 or 5 medium, more low.
C13_SeverityByLength ==
  DetailsReturned =>
    \A i \in 1..Len(call.out) :
      /\ call.out[i].modules = call.arg[i]
      /\ call.out[i].length = Len(call.arg[i]) - 1
      /\ call.out[i].severity = SeverityOfLength(Len(call.arg[i]) - 1)

\* details of a cycle of five edges and of a cycle of six edges
C13_Witness ==
  /\ DetailsReturned
  /\ \E i, j \in 1..Len(call.out) :
       /\ call.out[i].length = 5 /\ call.out[i].severity = "medium"
       /\ call.out[j].length = 6 /\ call.out[j].severity = "low"

\* the part of name before the first ch, the whole name when it holds no ch
BeforeFirst(name, ch) ==
  IF \E i \in 1..Len(name) : name[i] = ch
  THEN SubSeq(name, 1, (CHOOSE i \in 1..Len(name) :
                          /\ name[i] = ch
                          /\ \A j \in 1..(i - 1) : name[j] # ch) - 1)
  ELSE name

\* name without a leading "src.", "lib.", "core." or "app.", if it has one
WithoutLeadingPrefix(name) ==
  IF \E k \in 1..Len(prefixes) :
       Len(name) >= Len(prefixes[k]) /\ SubSeq(name, 1, Len(prefixes[k])) = prefixes[k]
  THEN LET k == CHOOSE k \in 1..Len(prefixes) :
                  /\ Len(name) >= Len(prefixes[k])
                  /\ SubSeq(name, 1, Len(prefixes[k])) = prefixes[k]
       IN SubSeq(name, Len(prefixes[k]) + 1, Len(name))
  ELSE name

SrcFooBar == <<"s","r","c",".","f","o","o",".","b","a","r">>

NormalizeReturned == call.fn = "_normalize_module_name" /\ call.returned

\* C14: for a non-empty name, normalize(name) is the cut at the first '.',
\* then the removal of a leading "src.", "lib.", "core." or "app.", then the
\* cut at the first '/', in this order; normalize("src.foo.bar") is "src",
\* not "foo".
C14_NormalizeOrder ==
  (NormalizeReturned /\ call.arg # <<>>) =>
    /\ call.out = BeforeFirst(WithoutLeadingPrefix(BeforeFirst(call.arg, ".")), "/")
    /\ call.arg = SrcFooBar =>
         call.out = <<"s","r","c">> /\ call.out # <<"f","o","o">>

\* normalize("src.foo.bar") returned "src"
C14_Witness ==
  /\ NormalizeReturned
  /\ call.arg = SrcFooBar
  /\ call.out = <<"s","r","c">>

HighCouplingReturned ==
  call.fn = "_identify_high_coupling_modules" /\ call.returned

\* afferent + efferent of a node
TotalOf(m) == m.afferent_coupling + m.efferent_coupling

\* C15: high_coupling with threshold t returns exactly the nodes whose
\* afferent + efferent is at least t, each once with its own counts, in
\* non-increasing order of total coupling, with risk high iff the total
\* exceeds 2 * t and medium otherwise; at t = 10 a total of 11 and of 20 is
\* medium and a total of 21 is high.
C15_HighCoupling ==
  HighCouplingReturned =>
    LET nodes == call.arg.nodes
        t == call.arg.threshold
        out == call.out
    IN /\ {out[i].module : i \in 1..Len(out)}
            = {nodes[i].module_name : i \in {j \in 1..Len(nodes) : TotalOf(nodes[j]) >= t}}
       /\ \A i, j \in 1..Len(out) : out[i].module = out[j].module => i = j
       /\ \A i \in 1..Len(out) :
            \E k \in 1..Len(nodes) :
              /\ nodes[k].module_name = out[i].module
              /\ out[i].afferent = nodes[k].afferent_coupling
              /\ out[i].efferent = nodes[k].efferent_coupling
              /\ out[i].total_coupling = TotalOf(nodes[k])
              /\ out[i].instability = nodes[k].instability
       /\ \A i, j \in 1..Len(out) :
            i < j => out[i].total_coupling >= out[j].total_coupling
       /\ \A i \in 1..Len(out) :
            /\ out[i].risk_level \in {"high", "medium"}
            /\ out[i].risk_level = "high" <=> out[i].total_coupling > 2 * t
            /\ (t = 10 /\ out[i].total_coupling \in {11, 20}) =>
                 out[i].risk_level = "medium"
            /\ (t = 10 /\ out[i].total_coupling = 21) => out[i].risk_level = "high"

\* at the default threshold, nodes of total coupling 11, 20 and 21 given in
\* that order came back as 21 high, 20 medium, 11 medium
C15_Witness ==
  /\ HighCouplingReturned
  /\ call.arg.threshold = 10
  /\ Len(call.arg.nodes) = 3
  /\ TotalOf(call.arg.nodes[1]) = 11
  /\ TotalOf(call.arg.nodes[2]) = 20
  /\ TotalOf(call.arg.nodes[3]) = 21
  /\ Len(call.out) = 3
  /\ call.out[1].total_coupling = 21 /\ call.out[1].risk_level = "high"
  /\ call.out[2].total_coupling = 20 /\ call.out[2].risk_level = "medium"
  /\ call.out[3].total_coupling = 11 /\ call.out[3].risk_level = "medium"

Analyzed == call.fn = "analyze_coupling" /\ call.returned

\* instability above 0.7, on the exact fraction
Above07(m) == m.instability.num * 10 > 7 * m.instability.den

\* the entries (node position, position in its dependencies) whose source
\* and target both have instability above 0.7
UnstableEntries ==
  {e \in (1..Len(modules)) \X (1..MaxRecords) :
     /\ e[2] <= Len(modules[e[1]].dependencies)
     /\ Above07(modules[e[1]])
     /\ \E k \in 1..Len(modules) :
          /\ modules[k].module_name = modules[e[1]].dependencies[e[2]].target_module
          /\ Above07(modules[k])}

ZeroNodes == build_pc = "built" /\ Len(graph.nodes) = 0

SummaryKeys ==
  {"total_modules", "total_dependencies", "average_instability",
   "average_abstraction", "instability_distribution"}

\* C17 as stated: on a graph with zero nodes the coupling summary holds
\* total modules 0, average instability 0, average abstraction 0 and zero in
\* every instability bucket.
C17_Original ==
  (ZeroNodes /\ Analyzed) =>
    /\ SummaryKeys \subseteq DOMAIN analysis.summary
    /\ analysis.summary.total_modules = 0
    /\ FracEq(analysis.summary.average_instability, Zero)
    /\ FracEq(analysis.summary.average_abstraction, Zero)
    /\ analysis.summary.instability_distribution
         = [stable |-> 0, moderate |-> 0, unstable |-> 0]

\* C17: on a graph with zero nodes the metrics pass, detect_cycles and
\* analyze_coupling complete: the metadata count 0 nodes and 0 edges with
\* average coupling 0.0, detect_cycles returns no cycle, and analyze_coupling
\* returns the empty dict as summary (no key at all, so that a reader gets 0
\* only through get with a default), no high-coupling module, no violation
\* and the one static recommendation.
C17_ZeroNodes ==
  ZeroNodes =>
    /\ modules = <<>>
    /\ graph.edges = <<>>
    /\ graph.metadata.total_nodes = 0
    /\ graph.metadata.total_edges = 0
    /\ FracEq(graph.metadata.average_coupling, Zero)
    /\ graph.metadata.core_modules = <<>>
    /\ detect_pc = "done" => result = <<>>
    /\ Analyzed =>
         /\ DOMAIN analysis.summary = {}
         /\ GetOr(analysis.summary, "average_instability", 0) = 0
         /\ GetOr(analysis.summary, "average_abstraction", 0) = 0
         /\ analysis.high_coupling = <<>>
         /\ analysis.violations = <<>>
         /\ Len(analysis.recommendations) = 1
         /\ analysis.recommendations[1].category = "dependency_inversion"

\* both passes have run on the graph of an empty build
C17_Witness ==
  /\ ZeroNodes
  /\ ninputs = 0
  /\ detect_pc = "done"
  /\ Analyzed
  /\ analysis.summary = EmptyDict

\* the modules the node depends on
TargetsOf(node) ==
  {node.dependencies[i].target_module : i \in 1..Len(node.dependencies)}

\* C18: after the metrics pass a node's efferent_coupling is the number of
\* distinct modules the node depends on, whatever records were added.
C18_EfferentCountsModules ==
  build_pc \in {"measured", "built"} =>
    \A i \in 1..Len(modules) :
      modules[i].efferent_coupling = Cardinality(TargetsOf(modules[i]))

\* the orders the keys of a node map can have
KeyOrders(keys) ==
  {p \in [1..Len(keys) -> SetOf(keys)] :
     \A i, j \in 1..Len(keys) : p[i] = p[j] => i = j}

\* the cycles of a returned list, as a set
CycleSet(cycles) == {cycles[i] : i \in 1..Len(cycles)}

\* C19: the order of the keys of the node map is irrelevant to detection:
\* on the same nodes with the same dependency lists, detect_cycles returns
\* the same set of cycles under every order of the keys.
C19_KeyOrderIrrelevant ==
  detect_pc = "done" =>
    \A p \in KeyOrders(graph.nodes) :
      CycleSet(detect_cycles([graph EXCEPT !.nodes = p], modules))
        = CycleSet(result)

\* what the call of caller r returns when it runs alone on graph g
AloneResult(fn, g, mods) ==
  IF fn = "detect_cycles" THEN detect_cycles(g, mods)
  ELSE analyze_coupling(g, mods)

\* C20: on a built graph, no step of a detect_cycles or analyze_coupling call
\* changes a node, a dependency list or a metric, whatever the other caller
\* is doing, and a call that has returned has returned what it returns when
\* it runs alone on that graph.
C20_ReadOnlyCalls ==
  [][ /\ build_pc = "built" => (modules' = modules /\ graph' = graph)
      /\ \A r \in ReaderIds :
           readers'[r].pc = "done" =>
             readers'[r].out = AloneResult(readers'[r].fn, graph', modules') ]_vars

\* on a graph with a cycle, a detect_cycles call and an analyze_coupling call
\* have both returned, one of them begun while the other was running
C20_Witness ==
  /\ build_pc = "built"
  /\ \E r, q \in ReaderIds :
       /\ readers[r].fn = "detect_cycles" /\ readers[r].pc = "done"
       /\ readers[q].fn = "analyze_coupling" /\ readers[q].pc = "done"
       /\ readers[r].overlapped \/ readers[q].overlapped
       /\ readers[r].out # <<>>
       /\ readers[q].out.violations # <<>>

CoreReturned == call.fn = "_build_graph_structure" /\ call.returned

\* the smaller of two numbers
Min(a, b) == IF a < b THEN a ELSE b

\* C21: the metadata hold min(5, number of nodes) core modules, distinct nodes
\* with their own score afferent + efferent, in non-increasing order of score;
\* no node left out has a score above that of an included one; max_coupling
\* is None exactly when there is no node, and otherwise names a node of
\* maximal score, the one of the first core_modules entry.
C21_CoreModules ==
  CoreReturned =>
    LET nodes == call.arg
        core == call.out.core_modules
        max_module == call.out.max_coupling
        included == {core[i].name : i \in 1..Len(core)}
    IN /\ Len(core) = Min(5, Len(nodes))
       /\ \A i, j \in 1..Len(core) : core[i].name = core[j].name => i = j
       /\ \A i \in 1..Len(core) :
            \E k \in 1..Len(nodes) :
              /\ nodes[k].module_name = core[i].name
              /\ core[i].score = TotalOf(nodes[k])
       /\ \A i, j \in 1..Len(core) : i < j => core[i].score >= core[j].score
       /\ \A k \in 1..Len(nodes) :
            nodes[k].module_name \notin included =>
              \A i \in 1..Len(core) : TotalOf(nodes[k]) <= core[i].score
       /\ (max_module = None) <=> (Len(nodes) = 0)
       /\ Len(nodes) > 0 =>
            /\ \E k \in 1..Len(nodes) :
                 /\ nodes[k].module_name = max_module
                 /\ \A j \in 1..Len(nodes) : TotalOf(nodes[j]) <= TotalOf(nodes[k])
            /\ max_module = core[1].name

\* six nodes, two of them of the maximal score and the later ones above the
\* first: five entries were kept and a node was left out
C21_Witness ==
  /\ CoreReturned
  /\ Len(call.arg) = 6
  /\ Len(call.out.core_modules) = 5
  /\ TotalOf(call.arg[1]) = 0
  /\ TotalOf(call.arg[2]) = 3
  /\ TotalOf(call.arg[3]) = 1
  /\ TotalOf(call.arg[4]) = 3
  /\ call.out.max_coupling = call.arg[2].module_name
  /\ call.out.core_modules[2].name = call.arg[4].module_name

BoxesReturned == call.fn = "get_bounding_box_messages" /\ call.returned

HasMessage(messages, kind) ==
  \E m \in 1..Len(messages) : messages[m].kind = kind

Max(a, b) == IF a > b THEN a ELSE b

\* the two rectangles share a region of positive width and height
Overlap(r1, r2) ==
  /\ Max(r1[1], r2[1]) < Min(r1[3], r2[3])
  /\ Max(r1[2], r2[2]) < Min(r1[4], r2[4])

\* the boxes of the form: field position, kind, rectangle
BoxesOf(form_fields) ==
  {<<f, "label", form_fields[f].label_bounding_box>> : f \in 1..Len(form_fields)}
  \cup {<<f, "entry", form_fields[f].entry_bounding_box>> : f \in 1..Len(form_fields)}

\* no two boxes of one page overlap, and no field with entry text has an
\* entry box lower than its font size (14 when it gives none)
ValidBoxes(form_fields) ==
  /\ \A b1, b2 \in BoxesOf(form_fields) :
       (/\ <<b1[1], b1[2]>> # <<b2[1], b2[2]>>
        /\ form_fields[b1[1]].page_number = form_fields[b2[1]].page_number)
         => ~Overlap(b1[3], b2[3])
  /\ \A f \in 1..Len(form_fields) :
       "entry_text" \in DOMAIN form_fields[f] =>
         form_fields[f].entry_bounding_box[4] - form_fields[f].entry_bounding_box[2]
           >= (IF "font_size" \in DOMAIN form_fields[f].entry_text
               THEN form_fields[f].entry_text.font_size ELSE 14)

ActiveNodes(d) == {d.frames[i].node : i \in 1..Len(d.frames)}

\* DFS state of a node: unvisited, on-stack or finished
NodeState(d, node) ==
  IF node \notin d.visited THEN "unvisited"
  ELSE IF node \in d.rec_stack THEN "on-stack"
  ELSE "finished"

\* a node's state stays or advances along unvisited, on-stack, finished
Advances(before, after) ==
  \/ before = after
  \/ before = "unvisited" /\ after = "on-stack"
  \/ before = "on-stack" /\ after = "finished"

\* C23: during one detect_cycles call every node's state only advances along
\* unvisited, on-stack, finished; the recursion-stack set is the set of the
\* names in the path, which are the nodes of the dfs calls in progress; and
\* when detect_cycles returns no node is on-stack.
C23_NodeStates ==
  [][ detect_pc' \in {"running", "done"} =>
        /\ detect_pc = "running" =>
             \A node \in SetOf(graph.nodes) :
               Advances(NodeState(dfs, node), NodeState(dfs', node))
        /\ dfs'.rec_stack = SetOf(dfs'.path)
        /\ dfs'.rec_stack = ActiveNodes(dfs')
        /\ detect_pc' = "done" => dfs'.rec_stack = {} ]_vars

\* this step of detect_cycles records a cycle
RecordsCycle == detect_pc = "running" /\ Len(dfs'.cycles) = Len(dfs.cycles) + 1

\* the cycle a step records: the path from the on-stack neighbour to the
\* current node, closed by the neighbour
RecordedFromPath ==
  \E i \in 1..Len(dfs.path) :
    dfs'.cycles[Len(dfs'.cycles)] = SubSeq(dfs.path, i, Len(dfs.path)) \o <<dfs.path[i]>>

IsPrefixOf(list, later) ==
  /\ Len(list) <= Len(later)
  /\ \A i \in 1..Len(list) : later[i] = list[i]

\* C25: no node or edge is ever deleted.  Across every step the registry keeps
\* its keys (new keys come after them), and every entry of a node's
\* dependencies or dependents list is still in that list, at the same
\* position.
C25_NothingDeleted ==
  [][ /\ IsPrefixOf(Keys(modules), Keys(modules'))
      /\ \A i \in 1..Len(modules) :
           /\ IsPrefixOf(modules[i].dependencies, modules'[i].dependencies)
           /\ IsPrefixOf(modules[i].dependents, modules'[i].dependents) ]_vars

\* three inputs were consumed, the last one a record, and a module holds two
\* dependencies that earlier calls stored, a module holds a dependent
C25_Witness ==
  /\ last_call.op = "add"
  /\ ninputs = 3
  /\ \E i \in 1..Len(modules) : Len(modules[i].dependencies) >= 2
  /\ \E i \in 1..Len(modules) : Len(modules[i].dependents) >= 1

\* C26: every module name stored as a node key is non-empty.
C26_KeysNonEmpty ==
  \A i \in 1..Len(modules) : modules[i].module_name # <<>>

\* C27: detection is complete for existence.  When the dependency edges
\* contain a directed cycle, the detect_cycles call that has returned gave a
\* non-empty list, and so does detect_cycles under every order of the keys of
\* graph.nodes; the orders of the dependencies lists are those the records
\* can be added in.
C27_CycleIsFound ==
  /\ (detect_pc = "done" /\ HasDirectedCycle) => result # <<>>
  /\ (build_pc = "built" /\ HasDirectedCycle) =>
       \A p \in KeyOrders(graph.nodes) :
         detect_cycles([graph EXCEPT !.nodes = p], modules) # <<>>

\* detect_cycles returned on three modules whose first one is on no cycle and
\* reaches none, the other two being on a cycle
C27_Witness ==
  /\ detect_pc = "done"
  /\ Len(graph.nodes) = 3
  /\ HasDirectedCycle
  /\ graph.nodes[1] \notin ReachWithin(Successors({graph.nodes[1]}), Len(modules))
  /\ Successors({graph.nodes[1]}) = {}
  /\ result # <<>>

\* module t has a dependents entry naming module s
HasDependent(t, s) ==
  /\ t \in KeySet(modules)
  /\ \E j \in 1..Len(Get(modules, t).dependents) :
       Get(modules, t).dependents[j].target_module = s

\* the sum of afferent_coupling, of efferent_coupling, over the nodes from i
RECURSIVE SumAfferent(_, _)
SumAfferent(mods, i) ==
  IF i > Len(mods) THEN 0 ELSE mods[i].afferent_coupling + SumAfferent(mods, i + 1)

RECURSIVE SumEfferent(_, _)
SumEfferent(mods, i) ==
  IF i > Len(mods) THEN 0 ELSE mods[i].efferent_coupling + SumEfferent(mods, i + 1)

\* no module has two dependencies entries, of different kinds, on one module
OneKindPerPair ==
  \A i \in 1..Len(modules) :
    \A j, k \in 1..Len(modules[i].dependencies) :
      modules[i].dependencies[j].target_module
          = modules[i].dependencies[k].target_module => j = k

\* C28: forward and reverse lists mirror each other.  Module t has a
\* dependents entry naming module s exactly when s has a dependencies entry
\* targeting t; once the metrics are calculated the afferent couplings sum to
\* at most the sum of the efferent couplings, and to the same sum when every
\* pair of modules is linked by at most one kind.
C28_ListsMirror ==
  /\ \A s, t \in KeySet(modules) : HasDependent(t, s) <=> HasEdge(s, t)
  /\ \A i \in 1..Len(modules) :
       \A j \in 1..Len(modules[i].dependents) :
         modules[i].dependents[j].target_module \in KeySet(modules)
  /\ build_pc # "building" =>
       /\ SumAfferent(modules, 1) <= SumEfferent(modules, 1)
       /\ OneKindPerPair => SumAfferent(modules, 1) = SumEfferent(modules, 1)

\* the metrics were calculated on a graph where one module depends on another
\* by two kinds and a third record links another pair: the afferent sum is
\* below the efferent sum
C28_Witness ==
  /\ build_pc = "measured"
  /\ ~OneKindPerPair
  /\ SumAfferent(modules, 1) = 2
  /\ SumEfferent(modules, 1) = 3

\* a step of the running detect_cycles call that enters dfs(node)
EntersDfs ==
  /\ detect_pc = "running"
  /\ detect_pc' = "running"
  /\ Len(dfs'.frames) > Len(dfs.frames)

\* C29: detect_cycles terminates on every finite graph, with or without
\* cycles: a call that has begun returns; each node is entered by dfs at most
\* once, that is, a node dfs enters was not visited, is visited from then on,
\* and the visited set never loses a node; and every node of the graph has
\* been visited when the call returns.
C29_Terminates ==
  /\ (detect_pc = "running") ~> (detect_pc = "done")
  /\ [](detect_pc = "done" => SetOf(graph.nodes) \subseteq dfs.visited)
  /\ [][ /\ EntersDfs =>
              /\ dfs'.frames[Len(dfs'.frames)].node \notin dfs.visited
              /\ dfs'.frames[Len(dfs'.frames)].node \in dfs'.visited
         /\ (detect_pc = "running" /\ detect_pc' = "running") =>
              dfs.visited \subseteq dfs'.visited ]_detect_vars

\* the call returned on a graph with a cycle, all its nodes visited, after
\* the outer loop had passed a node already visited
C29_Witness ==
  /\ detect_pc = "done"
  /\ HasDirectedCycle
  /\ Len(graph.nodes) >= 2
  /\ SetOf(graph.nodes) \subseteq dfs.visited
  /\ dfs.k = Len(graph.nodes) + 1
  /\ Len(dfs.path) >= 2

\* the orders the records of a list can be fed in
Orders(records) ==
  {[i \in 1..Len(records) |-> records[p[i]]] :
     p \in {q \in [1..Len(records) -> 1..Len(records)] :
              \A i, j \in 1..Len(records) : q[i] = q[j] => i = j}}

\* the (source, target, kind) triples of the dependencies lists
TriplesOf(mods) ==
  UNION {{<<d.source_module, d.target_module, d.dependency_type>> :
            d \in SetOf(mods[i].dependencies)} : i \in 1..Len(mods)}

\* the (module, depending module) pairs of the dependents lists
PairsOf(mods) ==
  UNION {{<<mods[i].module_name, d.target_module>> :
            d \in SetOf(mods[i].dependents)} : i \in 1..Len(mods)}

\* two registries hold the same nodes, edges and coupling metrics
SameGraph(x, y) ==
  /\ KeySet(x) = KeySet(y)
  /\ TriplesOf(x) = TriplesOf(y)
  /\ PairsOf(x) = PairsOf(y)
  /\ \A name \in KeySet(x) \cap KeySet(y) :
       /\ Get(x, name).afferent_coupling = Get(y, name).afferent_coupling
       /\ Get(x, name).efferent_coupling = Get(y, name).efferent_coupling
       /\ FracEq(Get(x, name).instability, Get(y, name).instability)

BatchReturned == call.fn = "_add_dependency" /\ call.returned

\* C30: add_dependency is order-independent up to which duplicate is kept.
\* The same records fed in any order give the same set of node keys, the same
\* set of (source, target, kind) triples in the dependencies lists, the same
\* set of (module, depending module) pairs in the dependents lists, and the
\* same afferent coupling, efferent coupling and instability of every node.
C30_OrderIndependent ==
  BatchReturned =>
    \A records \in Orders(call.arg) : SameGraph(AddAll(records), call.out)

\* three records were added, two of them a -> root of different kinds, and in
\* another order the keys of the registry come in another order and a list
\* holds its entries in another order
C30_Witness ==
  /\ BatchReturned
  /\ Len(call.arg) = 3
  /\ \E i \in 1..Len(call.out) : Len(call.out[i].dependencies) = 2
  /\ \E records \in Orders(call.arg) : Keys(AddAll(records)) # Keys(call.out)
  /\ \E records \in Orders(call.arg) :
       \E name \in KeySet(call.out) :
         Get(AddAll(records), name).dependencies # Get(call.out, name).dependencies

====
